---- MODULE Spec2Model ----
(***************************************************************************)
(* Model of cargo-coupling: the classification and balance engine          *)
(* (src/balance.rs, src/metrics.rs), the project aggregator                *)
(* (src/analyzer.rs), the volatility fold, cycle detection and the graph   *)
(* assembly (src/web/graph.rs).                                            *)
(*                                                                         *)
(* Numbers.  Every weight of the source is a multiple of 0.25, so f64      *)
(* arithmetic on them is exact.  The model keeps them as integers:         *)
(*   weight4  = 4  * weight         (0..4)                                 *)
(*   impact16 = 16 * (1 - v*s)      (0..16)                                *)
(*   score64  = 64 * score          (0..64)                                *)
(* and compares against the decimal literals of the source by cross        *)
(* multiplication (score >= 0.8  <=>  5*score64 >= 256).                   *)
(*                                                                         *)
(* Strings.  A Rust string is a sequence of one-character strings, so that *)
(* split, starts_with, contains, to_lowercase and replace are computed.    *)
(***************************************************************************)
EXTENDS Integers, Sequences, FiniteSets, TLC

VARIABLES
    pc,             \* position of the running operation
    coupling,       \* the CouplingMetrics handed to the balance engine
    balance,        \* BalanceScore::calculate(coupling), or None
    issues,         \* identify_issues(coupling), or None
    classification, \* BalanceClassification::classify(...), or None
    counts,         \* issues_by_severity + internal coupling count
    grade,          \* calculate_health_grade(counts), or None
    couplings,      \* ProjectMetrics.couplings
    origin,         \* usage context each coupling was built from (ghost)
    file_changes,   \* ProjectMetrics.file_changes
    analyzed,       \* per-file extraction results waiting for the merge
    config,         \* CompiledConfig volatility patterns and cache
    type_registry,  \* ProjectMetrics.type_registry
    workspace,      \* WorkspaceInfo (its members), or None
    graph,          \* build_dependency_graph(): node -> set of neighbours
    keys,           \* graph.keys() still to be visited by the outer loop
    visited,        \* dfs visited set
    rec_stack,      \* dfs recursion-stack set
    path,           \* dfs current path
    frames,         \* call stack of dfs_find_cycles: neighbours left per frame
    cycles,         \* cycles pushed by the dfs, in order
    unique_cycles,  \* result of detect_circular_dependencies, or None
    edges,          \* edges of project_to_graph, or None
    calls,          \* the calls (register_type, add_dependency, ...) to make, in order
    references,     \* (path, kind, usage) the visitor still has to report
    seen_dependencies, \* CouplingAnalyzer.seen_dependencies
    dependencies,   \* CouplingAnalyzer.dependencies
    distances,      \* distances computed for references[1].path, or None
    path_exists,    \* whether the top-level path exists
    file_results,   \* per file: what analyze_rust_file_full returns
    par_result,     \* Result of analyze_project_parallel, or None
    modules,        \* ProjectMetrics.modules: name -> ModuleMetrics
    thresholds,     \* IssueThresholds in force, or None
    report,         \* ProjectBalanceReport, or None
    args,           \* the command line's --max-deps / --max-dependents
    config_file,    \* the [thresholds] keys of .coupling.toml, or None
    syntax,         \* the items of the parsed file (syn::File.items)
    analyzer,       \* CouplingAnalyzer: imported_types, current_item, ...
    lookups,        \* the get_volatility calls made so far and their answers
    limit,          \* the limit handed to calculate_hotspots
    hotspots,       \* the Vec<Hotspot> calculate_hotspots returned, or None
    check_config,   \* the CheckConfig of the quality gate, or None
    check_result,   \* the CheckResult run_check returned, or None
    exit_code,      \* what generate_check_output returned, or None
    graph_data,     \* the GraphData project_to_graph returned, or None
    pool            \* the parallel file analysis: chunks, their results, or None

vars == <<pc, coupling, balance, issues, classification, counts, grade,
          couplings, origin, file_changes, analyzed, config,
          type_registry, workspace,
          graph, keys, visited, rec_stack, path, frames, cycles,
          unique_cycles, edges, calls, references, seen_dependencies,
          dependencies, distances,
          path_exists, file_results, par_result,
          modules, thresholds, report, args, config_file,
          syntax, analyzer, lookups, limit, hotspots,
          check_config, check_result, exit_code, graph_data, pool>>

balanceVars == <<coupling, balance, issues, classification>>
gradeVars   == <<counts, grade>>
projectVars == <<couplings, origin, file_changes, analyzed, config,
                 type_registry, workspace>>
cycleVars   == <<graph, keys, visited, rec_stack, path, frames, cycles,
                 unique_cycles, edges>>
regVars     == <<calls>>
extractVars == <<references, seen_dependencies, dependencies, distances>>
parallelVars == <<path_exists, file_results, par_result>>
reportVars  == <<modules, thresholds, report>>
cliVars     == <<args, config_file>>
visitVars   == <<syntax, analyzer>>
lookupVars  == <<lookups>>
hotspotVars == <<limit, hotspots>>
checkVars   == <<check_config, check_result, exit_code>>
graphVars   == <<graph_data>>
poolVars    == <<pool>>
lateVars    == <<checkVars, graphVars, poolVars>>
stageVars   == <<regVars, extractVars, parallelVars, reportVars, cliVars,
                 visitVars, lookupVars, hotspotVars, lateVars>>

None == <<>>

Some(x) == <<x>>

----------------------------------------------------------------------------
(* Generic helpers *)

Abs(x) == IF x < 0 THEN -x ELSE x

Max(a, b) == IF a >= b THEN a ELSE b

Range(s) == {s[i] : i \in 1..Len(s)}

RECURSIVE SeqSum(_)
SeqSum(s) == IF s = <<>> THEN 0 ELSE Head(s) + SeqSum(Tail(s))

RECURSIVE FlattenSeq(_)
FlattenSeq(ss) == IF ss = <<>> THEN <<>> ELSE Head(ss) \o FlattenSeq(Tail(ss))

----------------------------------------------------------------------------
(* Strings: sequences of characters, compared as Rust compares str (bytes) *)

\* the characters in use, in ASCII order
Alphabet == <<"*", "-", ".", "/", ":",
              "A", "B", "C", "D", "E", "F", "G", "H", "I", "J", "K", "L", "M",
              "N", "O", "P", "Q", "R", "S", "T", "U", "V", "W", "X", "Y", "Z",
              "_",
              "a", "b", "c", "d", "e", "f", "g", "h", "i", "j", "k", "l", "m",
              "n", "o", "p", "q", "r", "s", "t", "u", "v", "w", "x", "y", "z">>

Code(ch) == CHOOSE i \in 1..Len(Alphabet) : Alphabet[i] = ch

\* a < b for str: lexicographic on the characters, a proper prefix is smaller
RECURSIVE StrLess(_, _)
StrLess(a, b) ==
    IF b = <<>> THEN FALSE
    ELSE IF a = <<>> THEN TRUE
    ELSE IF Head(a) = Head(b) THEN StrLess(Tail(a), Tail(b))
    ELSE Code(Head(a)) < Code(Head(b))

\* str::starts_with
StartsWith(s, prefix) ==
    Len(s) >= Len(prefix) /\ SubSeq(s, 1, Len(prefix)) = prefix

\* str::ends_with
EndsWith(s, suffix) ==
    Len(s) >= Len(suffix) /\ SubSeq(s, Len(s) - Len(suffix) + 1, Len(s)) = suffix

\* str::contains (the empty pattern is contained in every string)
Contains(s, pat) ==
    \E i \in 1..(Len(s) - Len(pat) + 1) : SubSeq(s, i, i + Len(pat) - 1) = pat

\* str::split(sep), the parts in order (sep is not empty)
RECURSIVE Split(_, _)
Split(s, sep) ==
    IF ~Contains(s, sep) THEN <<s>>
    ELSE LET i == CHOOSE k \in 1..(Len(s) - Len(sep) + 1) :
                      /\ SubSeq(s, k, k + Len(sep) - 1) = sep
                      /\ \A j \in 1..(k - 1) : SubSeq(s, j, j + Len(sep) - 1) # sep
         IN <<SubSeq(s, 1, i - 1)>> \o Split(SubSeq(s, i + Len(sep), Len(s)), sep)

\* str::trim_end_matches(suffix): the suffix is removed as often as it ends s
RECURSIVE TrimEndMatches(_, _)
TrimEndMatches(s, suffix) ==
    IF suffix # <<>> /\ EndsWith(s, suffix)
    THEN TrimEndMatches(SubSeq(s, 1, Len(s) - Len(suffix)), suffix)
    ELSE s

\* char::to_lowercase on the alphabet in use
LowerChar(ch) ==
    IF Code(ch) >= Code("A") /\ Code(ch) <= Code("Z")
    THEN Alphabet[Code(ch) + (Code("a") - Code("A"))]
    ELSE ch

\* str::to_lowercase
ToLowercase(s) == [i \in 1..Len(s) |-> LowerChar(s[i])]

\* str::replace(from, to) for single characters
ReplaceChar(s, from, to) == [i \in 1..Len(s) |-> IF s[i] = from THEN to ELSE s[i]]

----------------------------------------------------------------------------
(* Enumerations and their weights (src/metrics.rs) *)

Strengths == {"Intrusive", "Functional", "Model", "Contract"}
Distances == {"SameFunction", "SameModule", "DifferentModule", "DifferentCrate"}
Volatilities == {"Low", "Medium", "High"}

\* IntegrationStrength::value, times 4
StrengthValue(s) ==
    CASE s = "Intrusive"  -> 4
      [] s = "Functional" -> 3
      [] s = "Model"      -> 2
      [] s = "Contract"   -> 1

\* Distance::value, times 4
DistanceValue(d) ==
    CASE d = "SameFunction"    -> 0
      [] d = "SameModule"      -> 1
      [] d = "DifferentModule" -> 2
      [] d = "DifferentCrate"  -> 4

\* Volatility::value, times 4
VolatilityValue(v) ==
    CASE v = "Low"    -> 0
      [] v = "Medium" -> 2
      [] v = "High"   -> 4

\* Volatility::from_count
from_count_low(count) ==
    IF count <= 3 THEN "Low"
    ELSE IF count <= 10 THEN "Medium"
    ELSE "High"

from_count(count) ==
    IF count <= 2 THEN "Low"
    ELSE IF count <= 10 THEN "Medium"
    ELSE "High"

----------------------------------------------------------------------------
(* Balance engine (src/balance.rs) *)

\* the interpretation match of BalanceScore::calculate; s64 = 64 * score
Interpretation(s64) ==
    IF 5 * s64 >= 256 THEN "Balanced"
    ELSE IF 5 * s64 >= 192 THEN "Acceptable"
    ELSE IF 5 * s64 >= 128 THEN "NeedsReview"
    ELSE IF 5 * s64 >= 64 THEN "NeedsRefactoring"
    ELSE "Critical"

\* mutant: alignment measured against the distance instead of 1 - distance
calculate_misaligned(c) ==
    LET strength   == StrengthValue(c.strength)
        distance   == DistanceValue(c.distance)
        volatility == VolatilityValue(c.volatility)
        alignment  == 4 - Abs(strength - distance)
        volatility_impact == 16 - volatility * strength
        score      == alignment * volatility_impact
    IN [score |-> score, alignment |-> alignment,
        volatility_impact |-> volatility_impact,
        interpretation |-> Interpretation(score)]

\* mutant: the volatility penalty is dropped
calculate_no_penalty(c) ==
    LET strength   == StrengthValue(c.strength)
        distance   == DistanceValue(c.distance)
        alignment  == 4 - Abs(strength - (4 - distance))
        score      == alignment * 16
    IN [score |-> score, alignment |-> alignment,
        volatility_impact |-> 16,
        interpretation |-> Interpretation(score)]

\* BalanceScore::calculate
calculate(c) ==
    LET strength   == StrengthValue(c.strength)
        distance   == DistanceValue(c.distance)
        volatility == VolatilityValue(c.volatility)
        alignment  == 4 - Abs(strength - (4 - distance))
        volatility_penalty == volatility * strength
        volatility_impact  == 16 - volatility_penalty
        score      == alignment * volatility_impact
    IN [score |-> score, alignment |-> alignment,
        volatility_impact |-> volatility_impact,
        interpretation |-> Interpretation(score)]

\* mutant: only the Balanced interpretation counts as balanced
is_balanced_only(b) == b.interpretation = "Balanced"

\* BalanceScore::is_balanced
is_balanced(b) == b.interpretation \in {"Balanced", "Acceptable"}

\* BalanceScore::needs_refactoring
needs_refactoring(b) == b.interpretation \in {"NeedsRefactoring", "Critical"}

\* mutant: the external-crate early return is missing
identify_issues_no_skip(c) ==
    LET b == calculate(c)
        Issue(t, sev) == [issue_type |-> t, severity |-> sev,
                          balance_score |-> b.score]
        p1 == IF c.strength = "Intrusive" /\ c.distance \in {"DifferentModule", "DifferentCrate"}
              THEN <<Issue("GlobalComplexity", "Medium")>> ELSE <<>>
        p2 == IF c.strength = "Intrusive" /\ c.volatility = "High"
              THEN p1 \o <<Issue("CascadingChangeRisk", "High")>> ELSE p1
    IN p2

\* identify_issues_with_thresholds (the thresholds argument is unused there)
identify_issues(c) ==
    LET b == calculate(c)
        Issue(t, sev) == [issue_type |-> t, severity |-> sev,
                          balance_score |-> b.score]
        \* Pattern 1: Global Complexity
        p1 == IF c.strength = "Intrusive" /\ c.distance = "DifferentModule"
              THEN <<Issue("GlobalComplexity", "Medium")>> ELSE <<>>
        \* Pattern 2: Cascading Change Risk
        p2 == IF c.strength = "Intrusive" /\ c.volatility = "High"
              THEN p1 \o <<Issue("CascadingChangeRisk", "High")>> ELSE p1
        \* Pattern 3: Inappropriate Intimacy (score < 0.5 <=> score64 < 32)
        p3 == IF /\ c.strength = "Intrusive"
                 /\ c.distance = "DifferentModule"
                 /\ b.score < 32
                 /\ ~ \E i \in 1..Len(p2) : p2[i].issue_type = "GlobalComplexity"
              THEN p2 \o <<Issue("InappropriateIntimacy", "Medium")>> ELSE p2
    IN IF c.distance = "DifferentCrate" THEN <<>> ELSE p3

\* mutant: "strong" starts at Functional (0.75) instead of Model (0.5)
classify_strong75(strength, distance, volatility) ==
    LET is_strong   == StrengthValue(strength) >= 3
        is_far      == DistanceValue(distance) >= 2
        is_volatile == volatility = "High"
    IN CASE is_strong /\ ~is_far -> "HighCohesion"
         [] ~is_strong /\ is_far -> "LooseCoupling"
         [] ~is_strong /\ ~is_far -> "LocalComplexity"
         [] is_strong /\ is_far /\ ~is_volatile -> "Acceptable"
         [] is_strong /\ is_far /\ is_volatile -> "Pain"

\* BalanceClassification::classify
classify(strength, distance, volatility) ==
    LET is_strong   == StrengthValue(strength) >= 2
        is_far      == DistanceValue(distance) >= 2
        is_volatile == volatility = "High"
    IN CASE is_strong /\ ~is_far -> "HighCohesion"
         [] ~is_strong /\ is_far -> "LooseCoupling"
         [] ~is_strong /\ ~is_far -> "LocalComplexity"
         [] is_strong /\ is_far /\ ~is_volatile -> "Acceptable"
         [] is_strong /\ is_far /\ is_volatile -> "Pain"

----------------------------------------------------------------------------
(* Specification SpecBalance: the balance engine applied to one coupling *)

Idle ==
    /\ counts = None /\ grade = None

IdleProject ==
    /\ couplings = <<>> /\ origin = <<>> /\ file_changes = <<>>
    /\ analyzed = <<>> /\ config = None
    /\ type_registry = <<>> /\ workspace = None

IdleCycle ==
    /\ graph = None /\ keys = {} /\ visited = {} /\ rec_stack = {}
    /\ path = <<>> /\ frames = <<>> /\ cycles = <<>>
    /\ unique_cycles = None /\ edges = None

IdleReg ==
    /\ calls = <<>>

IdleExtractor ==
    /\ references = <<>> /\ seen_dependencies = {} /\ dependencies = <<>>
    /\ distances = None

IdleParallel ==
    /\ path_exists = TRUE /\ file_results = <<>> /\ par_result = None

IdleReport ==
    /\ modules = <<>> /\ thresholds = None /\ report = None

IdleCli ==
    /\ args = None /\ config_file = None

IdleVisit ==
    /\ syntax = <<>> /\ analyzer = None

IdleLookup ==
    /\ lookups = <<>>

IdleHotspot ==
    /\ limit = 0 /\ hotspots = None

IdleCheck ==
    /\ check_config = None /\ check_result = None /\ exit_code = None

IdleGraph ==
    /\ graph_data = None

IdlePool ==
    /\ pool = None

IdleLate ==
    /\ IdleCheck /\ IdleGraph /\ IdlePool

IdleTools ==
    /\ IdleVisit /\ IdleLookup /\ IdleHotspot /\ IdleLate

IdleStage ==
    /\ IdleReg /\ IdleExtractor /\ IdleParallel /\ IdleReport /\ IdleCli
    /\ IdleTools

IdleBalance ==
    /\ coupling = None /\ balance = None /\ issues = None
    /\ classification = None

InitBalance ==
    /\ pc = "balance"
    /\ coupling \in [strength : Strengths, distance : Distances,
                     volatility : Volatilities]
    /\ balance = None /\ issues = None /\ classification = None
    /\ Idle /\ IdleProject /\ IdleCycle
    /\ IdleStage

Calculate ==
    /\ pc = "balance" /\ balance = None
    /\ balance' = Some(calculate(coupling))
    /\ UNCHANGED <<pc, coupling, issues, classification, gradeVars,
                   projectVars, cycleVars>>
    /\ UNCHANGED stageVars

IdentifyIssues ==
    /\ pc = "balance" /\ issues = None
    /\ issues' = Some(identify_issues(coupling))
    /\ UNCHANGED <<pc, coupling, balance, classification, gradeVars,
                   projectVars, cycleVars>>
    /\ UNCHANGED stageVars

Classify ==
    /\ pc = "balance" /\ classification = None
    /\ classification' = Some(classify(coupling.strength, coupling.distance,
                                       coupling.volatility))
    /\ UNCHANGED <<pc, coupling, balance, issues, gradeVars,
                   projectVars, cycleVars>>
    /\ UNCHANGED stageVars

NextBalance == Calculate \/ IdentifyIssues \/ Classify

SpecBalance == InitBalance /\ [][NextBalance]_vars

IssueTypes(is) == {is[i].issue_type : i \in 1..Len(is)}

\* C1: for each of the 4 x 4 x 3 couplings the score returned by
\* BalanceScore::calculate is (1 - |s - (1 - d)|) * (1 - v*s) and lies in
\* [0, 1]  (in 64ths: (4 - |s4 - (4 - d4)|) * (16 - v4*s4) in 0..64).
C1_ScoreFormulaAndRange ==
    balance # None =>
        LET s == StrengthValue(coupling.strength)
            d == DistanceValue(coupling.distance)
            v == VolatilityValue(coupling.volatility)
        IN /\ s \in {1, 2, 3, 4} /\ d \in {0, 1, 2, 4} /\ v \in {0, 2, 4}
           /\ balance[1].score = (4 - Abs(s - (4 - d))) * (16 - v * s)
           /\ 0 <= balance[1].score /\ balance[1].score <= 64

\* C1 witness: a scored coupling strictly inside the range
\* (Functional + DifferentModule + Medium: 0.75 * 0.625).
C1_Witness ==
    /\ balance # None
    /\ coupling = [strength |-> "Functional", distance |-> "DifferentModule",
                   volatility |-> "Medium"]
    /\ balance[1].score = 30

\* C2 (original statement): the score is 1 iff (strength weight 0 and
\* volatility weight 0) or (strength 1, distance 0, volatility 0).
C2_Original ==
    balance # None =>
        LET s == StrengthValue(coupling.strength)
            d == DistanceValue(coupling.distance)
            v == VolatilityValue(coupling.volatility)
        IN (balance[1].score = 64) <=>
              ((s = 0 /\ v = 0) \/ (s = 4 /\ d = 0 /\ v = 0))

\* C2 (amended): the score is 1 iff the volatility weight is 0 and
\* strength weight + distance weight = 1, i.e. exactly for
\* Intrusive+SameFunction, Functional+SameModule and Model+DifferentModule
\* with Low volatility.
C2_ScoreOneIff ==
    balance # None =>
        ((balance[1].score = 64) <=>
            /\ coupling.volatility = "Low"
            /\ <<coupling.strength, coupling.distance>> \in
                  {<<"Intrusive", "SameFunction">>,
                   <<"Functional", "SameModule">>,
                   <<"Model", "DifferentModule">>})

\* C2 witness: Model + DifferentModule + Low scores exactly 1.
C2_Witness ==
    /\ balance # None
    /\ coupling = [strength |-> "Model", distance |-> "DifferentModule",
                   volatility |-> "Low"]
    /\ balance[1].score = 64

\* C4: identify_issues returns nothing for DifferentCrate; otherwise
\* GlobalComplexity (Medium) iff Intrusive + DifferentModule,
\* CascadingChangeRisk (High) iff Intrusive + High, InappropriateIntimacy
\* never together with GlobalComplexity, and nothing for non-Intrusive.
C4_IssueRules ==
    issues # None =>
        LET ts == IssueTypes(issues[1])
            SevOf(t) == {issues[1][i].severity :
                            i \in {j \in 1..Len(issues[1]) : issues[1][j].issue_type = t}}
        IN IF coupling.distance = "DifferentCrate"
           THEN issues[1] = <<>>
           ELSE /\ ("GlobalComplexity" \in ts) <=>
                      (coupling.strength = "Intrusive"
                         /\ coupling.distance = "DifferentModule")
                /\ SevOf("GlobalComplexity") \subseteq {"Medium"}
                /\ ("CascadingChangeRisk" \in ts) <=>
                      (coupling.strength = "Intrusive"
                         /\ coupling.volatility = "High")
                /\ SevOf("CascadingChangeRisk") \subseteq {"High"}
                /\ ~ ("InappropriateIntimacy" \in ts /\ "GlobalComplexity" \in ts)
                /\ ts \subseteq {"GlobalComplexity", "CascadingChangeRisk",
                                 "InappropriateIntimacy"}
                /\ (coupling.strength # "Intrusive" => issues[1] = <<>>)

\* C4 witness: Intrusive + DifferentModule + High, whose score is below 0.5,
\* got GlobalComplexity and CascadingChangeRisk and no InappropriateIntimacy.
C4_Witness ==
    /\ issues # None
    /\ coupling = [strength |-> "Intrusive", distance |-> "DifferentModule",
                   volatility |-> "High"]
    /\ calculate(coupling).score < 32
    /\ IssueTypes(issues[1]) = {"GlobalComplexity", "CascadingChangeRisk"}

\* C5: every triple gets exactly the Khononov class of the table
\* (strong = s >= 0.5, far = d >= 0.5, volatile = High) and exactly the
\* interpretation band of its score (>= 0.80, 0.60, 0.40, 0.20), with
\* is_balanced in the first two bands and needs_refactoring in the last two.
C5_ClassificationTotal ==
    (classification # None /\ balance # None) =>
        LET strong == coupling.strength \in {"Intrusive", "Functional", "Model"}
            far    == coupling.distance \in {"DifferentModule", "DifferentCrate"}
            vol    == coupling.volatility = "High"
            k      == balance[1].score
        IN /\ classification[1] \in {"HighCohesion", "LooseCoupling",
                                  "LocalComplexity", "Acceptable", "Pain"}
           /\ (strong /\ ~far) => classification[1] = "HighCohesion"
           /\ (~strong /\ far) => classification[1] = "LooseCoupling"
           /\ (~strong /\ ~far) => classification[1] = "LocalComplexity"
           /\ (strong /\ far /\ ~vol) => classification[1] = "Acceptable"
           /\ (strong /\ far /\ vol) => classification[1] = "Pain"
           /\ balance[1].interpretation =
                 (CASE 100 * k >= 80 * 64 -> "Balanced"
                    [] 100 * k < 80 * 64 /\ 100 * k >= 60 * 64 -> "Acceptable"
                    [] 100 * k < 60 * 64 /\ 100 * k >= 40 * 64 -> "NeedsReview"
                    [] 100 * k < 40 * 64 /\ 100 * k >= 20 * 64 -> "NeedsRefactoring"
                    [] 100 * k < 20 * 64 -> "Critical")
           /\ is_balanced(balance[1]) <=>
                 balance[1].interpretation \in {"Balanced", "Acceptable"}
           /\ needs_refactoring(balance[1]) <=>
                 balance[1].interpretation \in {"NeedsRefactoring", "Critical"}
           /\ is_balanced(balance[1]) <=> (100 * k >= 60 * 64)
           /\ needs_refactoring(balance[1]) <=> (100 * k < 40 * 64)

\* C5 witness: a strong, far, volatile coupling classified Pain whose score
\* falls in the Critical band.
C5_Witness ==
    /\ classification = Some("Pain") /\ balance # None
    /\ coupling = [strength |-> "Intrusive", distance |-> "DifferentCrate",
                   volatility |-> "High"]
    /\ balance[1].interpretation = "Critical"

----------------------------------------------------------------------------
(* Health grade (src/balance.rs) *)

MaxCritical == 4
MaxHigh == 3
MaxMedium == 14
MaxLow == 1
MaxInternal == 50

\* mutant: grade A does not ask for ten internal couplings
calculate_health_grade_any_size(issues_by_severity, internal_couplings) ==
    LET critical == issues_by_severity.critical
        high     == issues_by_severity.high
        medium   == issues_by_severity.medium
    IN IF internal_couplings = 0 THEN "B"
       ELSE IF critical > 3 THEN "F"
       ELSE IF critical > 0 \/ 20 * high > internal_couplings THEN "D"
       ELSE IF high > 0 \/ 4 * medium > internal_couplings THEN "C"
       ELSE IF 20 * medium > internal_couplings
               \/ 10 * (critical + high + medium) > internal_couplings THEN "B"
       ELSE IF high = 0 /\ 20 * medium <= internal_couplings THEN "A"
       ELSE "B"

\* mutant: the high-density test of grade D is >= 5% instead of > 5%
calculate_health_grade_ge(issues_by_severity, internal_couplings) ==
    LET critical == issues_by_severity.critical
        high     == issues_by_severity.high
        medium   == issues_by_severity.medium
    IN IF internal_couplings = 0 THEN "B"
       ELSE IF critical > 3 THEN "F"
       ELSE IF critical > 0 \/ 20 * high >= internal_couplings THEN "D"
       ELSE IF high > 0 \/ 4 * medium > internal_couplings THEN "C"
       ELSE IF 20 * medium > internal_couplings
               \/ 10 * (critical + high + medium) > internal_couplings THEN "B"
       ELSE IF high = 0 /\ 20 * medium <= internal_couplings
               /\ internal_couplings >= 10 THEN "A"
       ELSE "B"

\* calculate_health_grade.  The densities x / n are compared with the
\* literals 0.05, 0.25 and 0.10 by cross multiplication (x/n > 0.05 <=>
\* 20x > n), which is what the correctly rounded f64 division decides.
calculate_health_grade(issues_by_severity, internal_couplings) ==
    LET critical == issues_by_severity.critical
        high     == issues_by_severity.high
        medium   == issues_by_severity.medium
    IN IF internal_couplings = 0 THEN "B"
       ELSE IF critical > 3 THEN "F"
       ELSE IF critical > 0 \/ 20 * high > internal_couplings THEN "D"
       ELSE IF high > 0 \/ 4 * medium > internal_couplings THEN "C"
       ELSE IF 20 * medium > internal_couplings
               \/ 10 * (critical + high + medium) > internal_couplings THEN "B"
       ELSE IF high = 0 /\ 20 * medium <= internal_couplings
               /\ internal_couplings >= 10 THEN "A"
       ELSE "B"

(* Specification SpecGrade: calculate_health_grade on bounded issue counts *)

InitGrade ==
    /\ pc = "grade"
    /\ counts \in [critical : 0..MaxCritical, high : 0..MaxHigh,
                   medium : 0..MaxMedium, low : 0..MaxLow,
                   internal : 0..MaxInternal]
    /\ grade = None
    /\ IdleBalance /\ IdleProject /\ IdleCycle
    /\ IdleStage

CalculateHealthGrade ==
    /\ pc = "grade" /\ grade = None
    /\ grade' = Some(calculate_health_grade(counts, counts.internal))
    /\ UNCHANGED <<pc, counts, balanceVars, projectVars, cycleVars>>
    /\ UNCHANGED stageVars

NextGrade == CalculateHealthGrade

SpecGrade == InitGrade /\ [][NextGrade]_vars

\* C3: calculate_health_grade(C, H, M, N) is the first matching row of
\* N=0 -> B; C>3 -> F; C>0 or H/N>0.05 -> D; H>0 or M/N>0.25 -> C;
\* M/N>0.05 or (C+H+M)/N>0.10 -> B; H=0 and M/N<=0.05 and N>=10 -> A;
\* otherwise B.  The low count plays no part, and 50 issue-free internal
\* couplings give A.
C3_GradeTable ==
    grade # None =>
        LET C == counts.critical
            H == counts.high
            M == counts.medium
            N == counts.internal
            row1 == N = 0
            row2 == C > 3
            row3 == C > 0 \/ 100 * H > 5 * N
            row4 == H > 0 \/ 100 * M > 25 * N
            row5 == 100 * M > 5 * N \/ 100 * (C + H + M) > 10 * N
            row6 == H = 0 /\ 100 * M <= 5 * N /\ N >= 10
            expected ==
                CASE row1 -> "B"
                  [] ~row1 /\ row2 -> "F"
                  [] ~row1 /\ ~row2 /\ row3 -> "D"
                  [] ~row1 /\ ~row2 /\ ~row3 /\ row4 -> "C"
                  [] ~row1 /\ ~row2 /\ ~row3 /\ ~row4 /\ row5 -> "B"
                  [] ~row1 /\ ~row2 /\ ~row3 /\ ~row4 /\ ~row5 /\ row6 -> "A"
                  [] ~row1 /\ ~row2 /\ ~row3 /\ ~row4 /\ ~row5 /\ ~row6 -> "B"
        IN /\ grade[1] = expected
           /\ (C = 0 /\ H = 0 /\ M = 0 /\ N = 50) => grade[1] = "A"

\* C3 witness: one high issue among exactly 20 internal couplings (density
\* exactly 0.05, not above it) is graded C, with a low issue present.
C3_Witness ==
    /\ grade = Some("C")
    /\ counts = [critical |-> 0, high |-> 1, medium |-> 0, low |-> 1,
                 internal |-> 20]

----------------------------------------------------------------------------
(* Cycle detection (src/metrics.rs) and graph edges (src/web/graph.rs) *)

\* mutant: external couplings are not filtered out of the graph
build_dependency_graph_all(cs) ==
    LET sources == {cs[i].source : i \in 1..Len(cs)}
    IN [n \in sources |-> {cs[i].target : i \in {j \in 1..Len(cs) : cs[j].source = n}}]

\* build_dependency_graph: source -> set of targets, internal couplings only
build_dependency_graph(cs) ==
    LET internal == {i \in 1..Len(cs) : cs[i].distance # "DifferentCrate"}
        sources  == {cs[i].source : i \in internal}
    IN [n \in sources |-> {cs[i].target : i \in {j \in internal : cs[j].source = n}}]

\* path.iter().position(|n| n == neighbor)
Position(p, n) == CHOOSE i \in 1..Len(p) : p[i] = n /\ \A j \in 1..(i - 1) : p[j] # n

\* mutant: the cycle is not rotated, the first element is taken as minimum
normalize_cycle_identity(cycle) == cycle

\* ProjectMetrics::normalize_cycle: rotate so that the smallest name is first
normalize_cycle(cycle) ==
    IF cycle = <<>> THEN <<>>
    ELSE LET min_pos == CHOOSE i \in 1..Len(cycle) :
                            /\ \A j \in 1..Len(cycle) : ~StrLess(cycle[j], cycle[i])
                            /\ \A j \in 1..(i - 1) : StrLess(cycle[i], cycle[j])
         IN SubSeq(cycle, min_pos, Len(cycle)) \o SubSeq(cycle, 1, min_pos - 1)

\* the deduplication loop of detect_circular_dependencies
RECURSIVE Deduplicate(_, _)
Deduplicate(cs, unique) ==
    IF cs = <<>> THEN unique
    ELSE LET normalized == normalize_cycle(Head(cs))
         IN IF \E i \in 1..Len(unique) : normalize_cycle(unique[i]) = normalized
            THEN Deduplicate(Tail(cs), unique)
            ELSE Deduplicate(Tail(cs), Append(unique, Head(cs)))

\* entry of dfs_find_cycles(node): the three inserts and the new call frame
\* (fr is the call stack of the caller)
DfsEnter(node, fr) ==
    /\ visited' = visited \cup {node}
    /\ rec_stack' = rec_stack \cup {node}
    /\ path' = Append(path, node)
    /\ frames' = Append(fr, [node |-> node,
                             todo |-> IF node \in DOMAIN graph[1]
                                      THEN graph[1][node] ELSE {}])

\* cycle_edges of project_to_graph: windows(2) of every cycle plus last->first
cycle_edges(circular_deps) ==
    UNION {{<<c[i], c[i + 1]>> : i \in 1..(Len(c) - 1)} \cup {<<c[Len(c)], c[1]>>} :
              c \in Range(circular_deps)}

\* the edge loop of project_to_graph
graph_edges(cs, circular_deps) ==
    [i \in 1..Len(cs) |->
        [id |-> i - 1, source |-> cs[i].source, target |-> cs[i].target,
         distance |-> cs[i].distance,
         in_cycle |-> <<cs[i].source, cs[i].target>> \in cycle_edges(circular_deps)]]

(* Specification SpecCycle: project_to_graph on a bounded coupling list;    *)
(* its call of detect_circular_dependencies runs as a depth-first search    *)
(* whose HashMap / HashSet iteration orders are arbitrary.                  *)

MaxCouplings == 4

CycleModules == {<<"a">>, <<"b">>, <<"c">>}

CycleCouplings ==
    {[source |-> src, target |-> tgt, strength |-> "Model",
      distance |-> d, volatility |-> "Low"] :
        src \in CycleModules, tgt \in CycleModules,
        d \in {"DifferentModule", "DifferentCrate"}}

RECURSIVE SetToSeq(_)
SetToSeq(S) ==
    IF S = {} THEN <<>>
    ELSE LET x == CHOOSE y \in S : TRUE IN <<x>> \o SetToSeq(S \ {x})

InitCycle ==
    /\ pc = "cycle_start"
    /\ \E S \in SUBSET CycleCouplings :
          /\ Cardinality(S) <= MaxCouplings
          /\ couplings = SetToSeq(S)
    /\ origin = <<>> /\ file_changes = <<>> /\ analyzed = <<>> /\ config = None
    /\ type_registry = <<>> /\ workspace = None
    /\ IdleBalance /\ Idle /\ IdleCycle
    /\ IdleStage

\* detect_circular_dependencies, first lines: the graph and the empty sets
BuildGraph ==
    /\ pc = "cycle_start"
    /\ graph' = Some(build_dependency_graph(couplings))
    /\ keys' = DOMAIN build_dependency_graph(couplings)
    /\ pc' = "cycle_loop"
    /\ UNCHANGED <<visited, rec_stack, path, frames, cycles, unique_cycles,
                   edges, balanceVars, gradeVars, projectVars>>
    /\ UNCHANGED stageVars

\* for node in graph.keys(): a node not yet visited starts a search
OuterVisit ==
    /\ pc = "cycle_loop" /\ frames = <<>>
    /\ \E node \in keys :
          /\ keys' = keys \ {node}
          /\ node \notin visited
          /\ DfsEnter(node, <<>>)
    /\ UNCHANGED <<pc, graph, cycles, unique_cycles, edges,
                   balanceVars, gradeVars, projectVars>>
    /\ UNCHANGED stageVars

\* for node in graph.keys(): a node already visited is passed over
OuterSkip ==
    /\ pc = "cycle_loop" /\ frames = <<>>
    /\ \E node \in keys :
          /\ keys' = keys \ {node}
          /\ node \in visited
    /\ UNCHANGED <<pc, graph, visited, rec_stack, path, frames, cycles,
                   unique_cycles, edges, balanceVars, gradeVars, projectVars>>
    /\ UNCHANGED stageVars

\* for neighbor in neighbors: recursive call on an unvisited neighbour
DfsDescend ==
    /\ pc = "cycle_loop" /\ frames # <<>>
    /\ LET top == frames[Len(frames)]
       IN \E neighbor \in top.todo :
             /\ neighbor \notin visited
             /\ DfsEnter(neighbor,
                         [frames EXCEPT ![Len(frames)].todo = top.todo \ {neighbor}])
    /\ UNCHANGED <<pc, graph, keys, cycles, unique_cycles, edges,
                   balanceVars, gradeVars, projectVars>>
    /\ UNCHANGED stageVars

\* for neighbor in neighbors: a neighbour on the recursion stack closes a cycle
DfsBackEdge ==
    /\ pc = "cycle_loop" /\ frames # <<>>
    /\ LET top == frames[Len(frames)]
       IN \E neighbor \in top.todo :
             /\ neighbor \in visited /\ neighbor \in rec_stack
             /\ frames' = [frames EXCEPT ![Len(frames)].todo = top.todo \ {neighbor}]
             /\ LET cycle == SubSeq(path, Position(path, neighbor), Len(path))
                IN cycles' = IF Len(cycle) >= 2 THEN Append(cycles, cycle) ELSE cycles
    /\ UNCHANGED <<pc, graph, keys, visited, rec_stack, path, unique_cycles,
                   edges, balanceVars, gradeVars, projectVars>>
    /\ UNCHANGED stageVars

\* for neighbor in neighbors: a finished neighbour is passed over
DfsCrossEdge ==
    /\ pc = "cycle_loop" /\ frames # <<>>
    /\ LET top == frames[Len(frames)]
       IN \E neighbor \in top.todo :
             /\ neighbor \in visited /\ neighbor \notin rec_stack
             /\ frames' = [frames EXCEPT ![Len(frames)].todo = top.todo \ {neighbor}]
    /\ UNCHANGED <<pc, graph, keys, visited, rec_stack, path, cycles,
                   unique_cycles, edges, balanceVars, gradeVars, projectVars>>
    /\ UNCHANGED stageVars

\* end of dfs_find_cycles: path.pop(), rec_stack.remove(node), return
DfsReturn ==
    /\ pc = "cycle_loop" /\ frames # <<>>
    /\ frames[Len(frames)].todo = {}
    /\ path' = SubSeq(path, 1, Len(path) - 1)
    /\ rec_stack' = rec_stack \ {frames[Len(frames)].node}
    /\ frames' = SubSeq(frames, 1, Len(frames) - 1)
    /\ UNCHANGED <<pc, graph, keys, visited, cycles, unique_cycles, edges,
                   balanceVars, gradeVars, projectVars>>
    /\ UNCHANGED stageVars

\* end of detect_circular_dependencies: the deduplication loop
ReturnUnique ==
    /\ pc = "cycle_loop" /\ frames = <<>> /\ keys = {}
    /\ unique_cycles' = Some(Deduplicate(cycles, <<>>))
    /\ pc' = "cycle_done"
    /\ UNCHANGED <<graph, keys, visited, rec_stack, path, frames, cycles,
                   edges, balanceVars, gradeVars, projectVars>>
    /\ UNCHANGED stageVars

\* project_to_graph after the call: cycle_edges and the edge list
AssembleEdges ==
    /\ pc = "cycle_done"
    /\ edges' = Some(graph_edges(couplings, unique_cycles[1]))
    /\ pc' = "graph_done"
    /\ UNCHANGED <<graph, keys, visited, rec_stack, path, frames, cycles,
                   unique_cycles, balanceVars, gradeVars, projectVars>>
    /\ UNCHANGED stageVars

NextCycle ==
    \/ BuildGraph \/ OuterVisit \/ OuterSkip
    \/ DfsDescend \/ DfsBackEdge \/ DfsCrossEdge \/ DfsReturn
    \/ ReturnUnique \/ AssembleEdges

SpecCycle == InitCycle /\ [][NextCycle]_vars

\* the <<source, target>> pairs of the couplings that are not DifferentCrate
InternalEdges ==
    {<<couplings[i].source, couplings[i].target>> :
        i \in {j \in 1..Len(couplings) : couplings[j].distance # "DifferentCrate"}}

NodesOf(E) == {e[1] : e \in E} \cup {e[2] : e \in E}

\* pairs joined by a directed path of at least one edge of E
RECURSIVE Closure(_, _, _)
Closure(R, E, k) ==
    IF k = 0 THEN R
    ELSE Closure(R \cup {<<z[1][1], z[2][2]>> :
                            z \in {y \in R \X E : y[1][2] = y[2][1]}},
                 E, k - 1)

Reaches(E) == Closure(E, E, Cardinality(NodesOf(E)))

\* E has a directed cycle through at least two modules
HasCycle(E) ==
    \E u \in NodesOf(E), v \in NodesOf(E) :
        u # v /\ <<u, v>> \in Reaches(E) /\ <<v, u>> \in Reaches(E)

\* the edges of the cyclic list c (wrap-around implied)
RingEdges(c) ==
    {<<c[i], c[(i % Len(c)) + 1]>> : i \in 1..Len(c)}

NoRepeat(c) == \A i \in 1..Len(c), j \in 1..Len(c) : i # j => c[i] # c[j]

\* the lists of n >= 2 distinct modules
Rings ==
    UNION {{c \in [1..n -> CycleModules] : NoRepeat(c)} :
              n \in 2..Cardinality(CycleModules)}

\* C7: the graph is built from the non-DifferentCrate couplings only; with
\* no directed cycle of length >= 2 among them the result is empty; when
\* they form exactly one simple cycle of n >= 2 modules the result is one
\* cycle holding exactly those n modules, for every visiting order; and each
\* returned cycle is a real cycle of the internal graph without repetition.
C7_CyclesFound ==
    unique_cycles # None =>
        LET E == InternalEdges
            R == unique_cycles[1]
        IN /\ \A n \in DOMAIN graph[1] : \A t \in graph[1][n] : <<n, t>> \in E
           /\ \A e \in E : e[1] \in DOMAIN graph[1] /\ e[2] \in graph[1][e[1]]
           /\ ~HasCycle(E) => R = <<>>
           /\ \A c \in Rings :
                 E = RingEdges(c) =>
                    /\ Len(R) = 1
                    /\ Len(R[1]) = Len(c)
                    /\ Range(R[1]) = Range(c)
           /\ \A i \in 1..Len(R) :
                 /\ Len(R[i]) >= 2
                 /\ NoRepeat(R[i])
                 /\ RingEdges(R[i]) \subseteq E

\* C7 witness: a -> b -> c -> a internal, with an external coupling beside
\* it, and exactly one cycle of length 3 returned.
C7_Witness ==
    /\ unique_cycles # None
    /\ InternalEdges = {<< <<"a">>, <<"b">> >>, << <<"b">>, <<"c">> >>,
                        << <<"c">>, <<"a">> >>}
    /\ \E i \in 1..Len(couplings) : couplings[i].distance = "DifferentCrate"
    /\ Len(unique_cycles[1]) = 1
    /\ Len(unique_cycles[1][1]) = 3

\* C8: in the edges of project_to_graph, no edge with in_cycle = true comes
\* from a coupling whose distance is DifferentCrate.
C8_NoExternalEdgeInCycle ==
    edges # None =>
        \A i \in 1..Len(edges[1]) :
            edges[1][i].in_cycle => couplings[i].distance # "DifferentCrate"

\* a set of names as the list in ascending str order
RECURSIVE SortedSeq(_)
SortedSeq(S) ==
    IF S = {} THEN <<>>
    ELSE LET m == CHOOSE x \in S : \A y \in S : ~StrLess(y, x)
         IN <<m>> \o SortedSeq(S \ {m})

\* dfs_find_cycles run to completion with every HashSet iterated in
\* ascending order; st = [visited, rec_stack, path, cycles]
RECURSIVE DfsSorted(_, _, _)
RECURSIVE DfsNeighborsSorted(_, _, _)
DfsSorted(node, g, st) ==
    LET entered == [st EXCEPT !.visited = @ \cup {node},
                              !.rec_stack = @ \cup {node},
                              !.path = Append(@, node)]
        nbrs == IF node \in DOMAIN g THEN SortedSeq(g[node]) ELSE <<>>
        after == DfsNeighborsSorted(nbrs, g, entered)
    IN [after EXCEPT !.path = SubSeq(@, 1, Len(@) - 1),
                     !.rec_stack = @ \ {node}]

DfsNeighborsSorted(nbrs, g, st) ==
    IF nbrs = <<>> THEN st
    ELSE LET neighbor == Head(nbrs)
             st1 == IF neighbor \notin st.visited
                    THEN DfsSorted(neighbor, g, st)
                    ELSE IF neighbor \in st.rec_stack
                    THEN LET cycle == SubSeq(st.path, Position(st.path, neighbor),
                                             Len(st.path))
                         IN IF Len(cycle) >= 2
                            THEN [st EXCEPT !.cycles = Append(@, cycle)]
                            ELSE st
                    ELSE st
         IN DfsNeighborsSorted(Tail(nbrs), g, st1)

\* the outer loop of detect_circular_dependencies over the keys in
\* ascending order
RECURSIVE OuterSorted(_, _, _)
OuterSorted(ks, g, st) ==
    IF ks = <<>> THEN st
    ELSE OuterSorted(Tail(ks), g,
                     IF Head(ks) \notin st.visited
                     THEN DfsSorted(Head(ks), g, st) ELSE st)

\* detect_circular_dependencies on the run that iterates in ascending order
detect_sorted(cs) ==
    LET g  == build_dependency_graph(cs)
        st == OuterSorted(SortedSeq(DOMAIN g), g,
                          [visited |-> {}, rec_stack |-> {}, path |-> <<>>,
                           cycles |-> <<>>])
    IN Deduplicate(st.cycles, <<>>)

\* the canonical forms of a list of cycles
CanonicalSet(cs) == {normalize_cycle(cs[i]) : i \in 1..Len(cs)}

\* C9: for a fixed coupling list the set of canonical cycles returned by
\* detect_circular_dependencies does not depend on the order in which nodes
\* and neighbours are visited: every run returns the canonical set of the
\* run that visits them in ascending order.
C9_CyclesDeterministic ==
    unique_cycles # None =>
        CanonicalSet(unique_cycles[1]) = CanonicalSet(detect_sorted(couplings))

----------------------------------------------------------------------------
(* Volatility fold (src/metrics.rs) *)

SepColons == <<":", ":">>
SepSlash  == <<"/">>
ExtRs     == <<".", "r", "s">>
StrLib    == <<"l", "i", "b">>
StrStar   == <<"*">>

\* file_path.rsplit('/').next().unwrap_or(file_path).trim_end_matches(".rs")
FileName(file_path) ==
    LET comps == Split(file_path, SepSlash)
    IN TrimEndMatches(comps[Len(comps)], ExtRs)

\* mutant: only the direct match of segment and file name is kept
PartMatches_direct(part, file_path, target_parts) ==
    ToLowercase(part) = ToLowercase(FileName(file_path))

\* the closure given to target_parts.iter().any(..) in
\* update_volatility_from_git
PartMatches(part, file_path, target_parts) ==
    LET file_name  == FileName(file_path)
        part_lower == ToLowercase(part)
        file_lower == ToLowercase(file_name)
    IN \/ part_lower = file_lower
       \/ /\ file_lower = StrLib /\ part # <<>> /\ part # StrStar
          /\ Len(target_parts) >= 2 /\ target_parts[2] = part
       \/ ReplaceChar(part_lower, "-", "_") = ReplaceChar(file_lower, "-", "_")
       \/ Contains(ToLowercase(file_path), part_lower)

\* max_changes of one coupling target over the file-change map
MaxChanges(target, changes) ==
    LET target_parts == Split(target, SepColons)
        matching == {f \in DOMAIN changes :
                        \E i \in 1..Len(target_parts) :
                            PartMatches(target_parts[i], f, target_parts)}
    IN IF matching = {} THEN 0
       ELSE CHOOSE m \in {changes[f] : f \in matching} :
                \A f \in matching : changes[f] <= m

\* ProjectMetrics::update_volatility_from_git
update_volatility_from_git(cs, changes) ==
    IF DOMAIN changes = {} THEN cs
    ELSE [i \in 1..Len(cs) |->
             [cs[i] EXCEPT !.volatility = from_count(MaxChanges(cs[i].target, changes))]]

P_balance == <<"s", "r", "c", "/", "b", "a", "l", "a", "n", "c", "e", ".", "r", "s">>
P_analyzer == <<"s", "r", "c", "/", "a", "n", "a", "l", "y", "z", "e", "r", ".", "r", "s">>
P_report == <<"s", "r", "c", "/", "r", "e", "p", "o", "r", "t", ".", "r", "s">>
P_lib == <<"s", "r", "c", "/", "l", "i", "b", ".", "r", "s">>
P_web_graph == <<"s", "r", "c", "/", "w", "e", "b", "/", "g", "r", "a", "p", "h", ".", "r", "s">>
P_my_mod == <<"s", "r", "c", "/", "m", "y", "-", "m", "o", "d", ".", "r", "s">>
T_balance == <<"b", "a", "l", "a", "n", "c", "e">>
T_crate_balance == <<"c", "r", "a", "t", "e", ":", ":", "b", "a", "l", "a", "n", "c", "e">>
T_balance_Type == <<"b", "a", "l", "a", "n", "c", "e", ":", ":", "T", "y", "p", "e">>
T_analyzer == <<"a", "n", "a", "l", "y", "z", "e", "r">>
T_report == <<"r", "e", "p", "o", "r", "t">>
T_web == <<"w", "e", "b">>
T_foo_bar == <<"f", "o", "o", ":", ":", "b", "a", "r">>
T_my_mod == <<"m", "y", "_", "m", "o", "d">>
T_glob == <<"c", "r", "a", "t", "e", ":", ":", "*">>
T_main == <<"c", "r", "a", "t", "e", ":", ":", "m", "a", "i", "n">>

(* Specification SpecGit: update_volatility_from_git on a bounded project *)

MaxGitFiles == 2
MaxGitCouplings == 1

GitFiles == {P_balance, P_lib, P_web_graph, P_my_mod}
GitCounts == {2, 3, 10, 11}
GitTargets == {T_balance, T_crate_balance, T_balance_Type, T_analyzer,
               T_report, T_web, T_foo_bar, T_my_mod, T_glob}

\* the file-change map of test_update_volatility_from_git
TestChanges == (P_balance :> 15) @@ (P_analyzer :> 7) @@ (P_report :> 2)

GitMaps ==
    {TestChanges} \cup
    UNION {[F -> GitCounts] : F \in {G \in SUBSET GitFiles : Cardinality(G) <= MaxGitFiles}}

GitCouplings ==
    {[source |-> T_main, target |-> t, strength |-> "Functional",
      distance |-> "DifferentModule", volatility |-> v] :
        t \in GitTargets, v \in {"Low", "High"}}

InitGit ==
    /\ pc = "git"
    /\ couplings \in UNION {[1..n -> GitCouplings] : n \in 0..MaxGitCouplings}
    /\ origin = <<>>
    /\ file_changes \in GitMaps
    /\ analyzed = <<>> /\ config = None
    /\ type_registry = <<>> /\ workspace = None
    /\ IdleBalance /\ Idle /\ IdleCycle
    /\ IdleStage

UpdateVolatilityFromGit ==
    /\ pc = "git"
    /\ couplings' = update_volatility_from_git(couplings, file_changes)
    /\ pc' = "git_done"
    /\ UNCHANGED <<origin, file_changes, analyzed, config, type_registry,
                   workspace, balanceVars, gradeVars, cycleVars>>
    /\ UNCHANGED stageVars

NextGit == UpdateVolatilityFromGit

SpecGit == InitGit /\ [][NextGit]_vars

\* the largest commit count among the files a rule matches to the target
\* (0 when none matches)
MaxOver(Rule(_, _, _), target) ==
    LET parts == Split(target, SepColons)
        matched == {f \in DOMAIN file_changes :
                       \E i \in 1..Len(parts) : Rule(parts[i], f, parts)}
    IN IF matched = {} THEN 0
       ELSE CHOOSE m \in {file_changes[f] : f \in matched} :
                \A f \in matched : file_changes[f] <= m

\* 0-2 -> Low, 3-10 -> Medium, >= 11 -> High
Bucket(m) ==
    CASE m \in 0..2 -> "Low"
      [] m \in 3..10 -> "Medium"
      [] m >= 11 -> "High"

\* the match rules as the claim states them; for (b) the workspace crate may
\* have any name, so it only asks that the file stem is the second segment
RuleAsClaimed(seg, f, parts) ==
    LET stem == FileName(f)
    IN \/ ToLowercase(seg) = ToLowercase(stem)
       \/ Len(parts) >= 2 /\ parts[2] = stem
       \/ ReplaceChar(ToLowercase(seg), "-", "_") = ReplaceChar(ToLowercase(stem), "-", "_")
       \/ \E j \in 1..Len(parts) : Contains(parts[j], stem)

\* the match rules as amended: (b) the file stem is "lib" and the segment is
\* the second target segment; (d) the file path contains the segment
RuleAmended(seg, f, parts) ==
    LET stem == FileName(f)
    IN \/ ToLowercase(seg) = ToLowercase(stem)
       \/ /\ ToLowercase(stem) = StrLib
          /\ seg # <<>> /\ seg # StrStar
          /\ Len(parts) >= 2 /\ parts[2] = seg
       \/ ReplaceChar(ToLowercase(seg), "-", "_") = ReplaceChar(ToLowercase(stem), "-", "_")
       \/ \E k \in 0..(Len(f) - Len(seg)) :
             \A j \in 1..Len(seg) : LowerChar(f[k + j]) = LowerChar(seg[j])

\* what the test scenario expects of a target under TestChanges
ScenarioHolds ==
    file_changes = TestChanges =>
        \A i \in 1..Len(couplings) :
            /\ couplings[i].target \in {T_balance, T_crate_balance, T_balance_Type}
                  => couplings[i].volatility = "High"
            /\ couplings[i].target = T_analyzer => couplings[i].volatility = "Medium"
            /\ couplings[i].target = T_report => couplings[i].volatility = "Low"

----------------------------------------------------------------------------
(* Project aggregator (src/analyzer.rs) *)

UsageContexts ==
    {"Import", "TraitBound", "FieldAccess", "MethodCall", "FunctionCall",
     "StructConstruction", "TypeParameter", "FunctionParameter", "ReturnType",
     "InherentImplBlock"}

\* mutant: a function parameter is taken for a mere type use
to_strength_param_model(usage) ==
    CASE usage \in {"FieldAccess", "StructConstruction", "InherentImplBlock"} -> "Intrusive"
      [] usage \in {"MethodCall", "FunctionCall", "ReturnType"} -> "Functional"
      [] usage \in {"TypeParameter", "Import", "FunctionParameter"} -> "Model"
      [] usage = "TraitBound" -> "Contract"

\* UsageContext::to_strength
to_strength(usage) ==
    CASE usage = "FieldAccess" -> "Intrusive"
      [] usage = "StructConstruction" -> "Intrusive"
      [] usage = "InherentImplBlock" -> "Intrusive"
      [] usage = "MethodCall" -> "Functional"
      [] usage = "FunctionCall" -> "Functional"
      [] usage = "FunctionParameter" -> "Functional"
      [] usage = "ReturnType" -> "Functional"
      [] usage = "TypeParameter" -> "Model"
      [] usage = "Import" -> "Model"
      [] usage = "TraitBound" -> "Contract"

StrSelf       == <<"S", "e", "l", "f">>
PrefixSelfTy  == <<"S", "e", "l", "f", ":", ":">>
PrefixCrate   == <<"c", "r", "a", "t", "e", ":", ":">>
PrefixSuper   == <<"s", "u", "p", "e", "r", ":", ":">>
PrefixSelf    == <<"s", "e", "l", "f", ":", ":">>

\* common_locals of is_valid_dependency_path
common_locals ==
    {<<"r", "e", "q", "u", "e", "s", "t">>,
     <<"r", "e", "s", "p", "o", "n", "s", "e">>,
     <<"r", "e", "s", "u", "l", "t">>,
     <<"c", "o", "n", "t", "e", "n", "t">>,
     <<"c", "o", "n", "f", "i", "g">>,
     <<"p", "r", "o", "t", "o">>,
     <<"d", "o", "m", "a", "i", "n">>,
     <<"i", "n", "f", "o">>,
     <<"d", "a", "t", "a">>,
     <<"i", "t", "e", "m">>,
     <<"v", "a", "l", "u", "e">>,
     <<"e", "r", "r", "o", "r">>,
     <<"m", "e", "s", "s", "a", "g", "e">>,
     <<"e", "x", "p", "e", "c", "t", "e", "d">>,
     <<"a", "c", "t", "u", "a", "l">>,
     <<"s", "t", "a", "t", "u", "s">>,
     <<"s", "t", "a", "t", "e">>,
     <<"c", "o", "n", "t", "e", "x", "t">>,
     <<"p", "a", "r", "a", "m", "s">>,
     <<"a", "r", "g", "s">>,
     <<"o", "p", "t", "i", "o", "n", "s">>,
     <<"s", "e", "t", "t", "i", "n", "g", "s">>,
     <<"v", "i", "o", "l", "a", "t", "i", "o", "n">>,
     <<"p", "a", "g", "e", "_", "t", "o", "k", "e", "n">>}

\* char::is_lowercase on the alphabet in use
IsLowercase(ch) == Code(ch) >= Code("a") /\ Code(ch) <= Code("z")

\* str::trim_start_matches(prefix): removed as often as it starts s
RECURSIVE TrimStartMatches(_, _)
TrimStartMatches(s, prefix) ==
    IF prefix # <<>> /\ StartsWith(s, prefix)
    THEN TrimStartMatches(SubSeq(s, Len(prefix) + 1, Len(s)), prefix)
    ELSE s

\* is_valid_dependency_path
is_valid_dependency_path(p) ==
    LET segments == Split(p, SepColons)
        n == Len(segments)
    IN /\ p # <<>>
       /\ ~(p = StrSelf \/ StartsWith(p, PrefixSelfTy))
       /\ ~(n = 1 /\ Len(segments[1]) <= 8
              /\ \A i \in 1..Len(segments[1]) :
                    IsLowercase(segments[1][i]) \/ segments[1][i] = "_")
       /\ ~(n >= 2 /\ segments[n] = segments[n - 1])
       /\ ~(segments[n] \in common_locals /\ n <= 2)

\* extract_target_module
extract_target_module(p) ==
    LET cleaned == TrimStartMatches(
                       TrimStartMatches(TrimStartMatches(p, PrefixCrate), PrefixSuper),
                       SepColons)
    IN Split(cleaned, SepColons)[1]

\* calculate_distance
calculate_distance(dep_path) ==
    IF StartsWith(dep_path, PrefixCrate) \/ StartsWith(dep_path, PrefixSuper)
    THEN "DifferentModule"
    ELSE IF StartsWith(dep_path, PrefixSelf) THEN "SameModule"
    ELSE "DifferentCrate"

\* the last "::" segment of a path
LastSegment(p) == LET segs == Split(p, SepColons) IN segs[Len(segs)]

\* the first pass of analyze_project_parallel: HashMap::insert per declared
\* type, file after file
RECURSIVE RegisterTypes(_, _)
RegisterTypes(files, registry) ==
    IF files = <<>> THEN registry
    ELSE LET f == Head(files)
             tv == f.type_visibility
         IN RegisterTypes(Tail(files),
                [t \in DOMAIN registry \cup DOMAIN tv |->
                    IF t \in DOMAIN tv
                    THEN [module |-> f.module_name, visibility |-> tv[t]]
                    ELSE registry[t]])

\* ProjectMetrics::update_coupling_visibility
update_coupling_visibility(cs, registry) ==
    [i \in 1..Len(cs) |->
        LET target_type == LastSegment(cs[i].target)
        IN IF target_type \in DOMAIN registry
           THEN [cs[i] EXCEPT !.target_visibility = registry[target_type].visibility]
           ELSE cs[i]]

\* resolve_crate_from_path (src/workspace.rs is not part of the sources at
\* hand): crate::, self:: and super:: paths stay in the current crate, any
\* other path resolves to its head segment when that is a workspace member
resolve_crate_from_path(dep_path, current_crate, ws) ==
    IF \/ StartsWith(dep_path, PrefixCrate) \/ StartsWith(dep_path, PrefixSelf)
       \/ StartsWith(dep_path, PrefixSuper)
    THEN Some(current_crate)
    ELSE LET head == Split(dep_path, SepColons)[1]
         IN IF head \in ws.members THEN Some(head) ELSE None

\* WorkspaceInfo::is_workspace_member (src/workspace.rs, as above)
is_workspace_member(ws, name) == name \in ws.members

\* calculate_distance_with_workspace
calculate_distance_with_workspace(dep_path, current_crate, ws) ==
    IF StartsWith(dep_path, PrefixCrate) \/ StartsWith(dep_path, PrefixSelf)
    THEN "SameModule"
    ELSE IF StartsWith(dep_path, PrefixSuper) THEN "DifferentModule"
    ELSE LET target_crate == resolve_crate_from_path(dep_path, current_crate, ws)
         IN IF target_crate # None
            THEN IF target_crate[1] = current_crate THEN "SameModule"
                 ELSE IF is_workspace_member(ws, target_crate[1]) THEN "DifferentModule"
                 ELSE "DifferentCrate"
            ELSE "DifferentCrate"

\* the dependencies of one file that survive the two `continue`s of the
\* second pass
KeptDependencies(file, module_names) ==
    LET Keep(dep) ==
            /\ is_valid_dependency_path(dep.path)
            /\ \/ extract_target_module(dep.path) \in module_names
               \/ is_valid_dependency_path(extract_target_module(dep.path))
    IN SelectSeq(file.dependencies, Keep)

ModuleNamesOf(files) == {files[i].module_name : i \in 1..Len(files)}

\* mutant: the couplings are built with volatility Medium
CouplingsOfFile_medium(file, module_names, registry) ==
    LET kept == KeptDependencies(file, module_names)
    IN [i \in 1..Len(kept) |->
           LET dep == kept[i]
               target_type == LastSegment(dep.path)
           IN [source |-> file.module_name,
               target |-> extract_target_module(dep.path),
               strength |-> to_strength(dep.usage),
               distance |-> calculate_distance(dep.path),
               volatility |-> "Medium",
               target_visibility |-> IF target_type \in DOMAIN registry
                                     THEN registry[target_type].visibility
                                     ELSE "Public",
               source_crate |-> None,
               target_crate |-> None,
               line |-> dep.line]]

\* second pass of analyze_project_parallel for one file
CouplingsOfFile(file, module_names, registry) ==
    LET kept == KeptDependencies(file, module_names)
    IN [i \in 1..Len(kept) |->
           LET dep == kept[i]
               target_type == LastSegment(dep.path)
           IN [source |-> file.module_name,
               target |-> extract_target_module(dep.path),
               strength |-> to_strength(dep.usage),
               distance |-> calculate_distance(dep.path),
               volatility |-> "Low",
               target_visibility |-> IF target_type \in DOMAIN registry
                                     THEN registry[target_type].visibility
                                     ELSE "Public",
               source_crate |-> None,
               target_crate |-> None,
               line |-> dep.line]]

\* second pass of analyze_with_workspace for one file
CouplingsOfFileWithWorkspace(file, module_names, ws) ==
    LET kept == KeptDependencies(file, module_names)
    IN [i \in 1..Len(kept) |->
           LET dep == kept[i]
               resolved_crate == resolve_crate_from_path(dep.path, file.crate_name, ws)
               target_module == extract_target_module(dep.path)
           IN [source |-> file.crate_name \o SepColons \o file.module_name,
               target |-> IF resolved_crate # None
                          THEN resolved_crate[1] \o SepColons \o target_module
                          ELSE target_module,
               strength |-> to_strength(dep.usage),
               distance |-> calculate_distance_with_workspace(dep.path,
                                                              file.crate_name, ws),
               volatility |-> "Low",
               target_visibility |-> "Public",
               source_crate |-> Some(file.crate_name),
               target_crate |-> resolved_crate,
               line |-> dep.line]]

\* the usage contexts of the dependencies a file's couplings were built from
OriginsOfFile(file, module_names) ==
    LET kept == KeptDependencies(file, module_names)
    IN [i \in 1..Len(kept) |-> kept[i].usage]

\* analyze_project_parallel (merge passes and the trailing visibility update)
analyze_project_parallel(files) ==
    LET registry == RegisterTypes(files, <<>>)
        names == ModuleNamesOf(files)
        cs == FlattenSeq([i \in 1..Len(files) |->
                              CouplingsOfFile(files[i], names, registry)])
    IN [couplings |-> update_coupling_visibility(cs, registry),
        type_registry |-> registry]

\* analyze_with_workspace (merge pass; the type registry stays empty)
analyze_with_workspace(files, ws) ==
    LET names == ModuleNamesOf(files)
    IN [couplings |-> FlattenSeq([i \in 1..Len(files) |->
                          CouplingsOfFileWithWorkspace(files[i], names, ws)]),
        type_registry |-> <<>>]

----------------------------------------------------------------------------
(* Volatility overrides (src/config.rs) *)

\* glob::Pattern::matches for patterns made of literal characters and '*'
RECURSIVE GlobMatches(_, _)
GlobMatches(pat, str) ==
    IF pat = <<>> THEN str = <<>>
    ELSE IF Head(pat) = "*"
    THEN \/ GlobMatches(Tail(pat), str)
         \/ str # <<>> /\ GlobMatches(pat, Tail(str))
    ELSE /\ str # <<>> /\ Head(pat) = Head(str)
         /\ GlobMatches(Tail(pat), Tail(str))

AnyMatches(patterns, p) == \E i \in 1..Len(patterns) : GlobMatches(patterns[i], p)

\* mutant: the patterns are tried low first, then medium, then high
get_volatility_override_low_first(cfg, p) ==
    IF p \in DOMAIN cfg.cache
    THEN [result |-> cfg.cache[p], config |-> cfg]
    ELSE LET result == IF AnyMatches(cfg.low_patterns, p) THEN Some("Low")
                       ELSE IF AnyMatches(cfg.medium_patterns, p) THEN Some("Medium")
                       ELSE IF AnyMatches(cfg.high_patterns, p) THEN Some("High")
                       ELSE None
         IN [result |-> result,
             config |-> [cfg EXCEPT !.cache =
                            [q \in DOMAIN cfg.cache \cup {p} |->
                                IF q = p THEN result ELSE cfg.cache[q]]]]

\* CompiledConfig::get_volatility_override: the answer and the config with
\* its cache filled
get_volatility_override(cfg, p) ==
    IF p \in DOMAIN cfg.cache
    THEN [result |-> cfg.cache[p], config |-> cfg]
    ELSE LET result == IF AnyMatches(cfg.high_patterns, p) THEN Some("High")
                       ELSE IF AnyMatches(cfg.medium_patterns, p) THEN Some("Medium")
                       ELSE IF AnyMatches(cfg.low_patterns, p) THEN Some("Low")
                       ELSE None
         IN [result |-> result,
             config |-> [cfg EXCEPT !.cache =
                            [q \in DOMAIN cfg.cache \cup {p} |->
                                IF q = p THEN result ELSE cfg.cache[q]]]]

\* CompiledConfig::has_volatility_overrides
has_volatility_overrides(cfg) ==
    cfg.high_patterns # <<>> \/ cfg.medium_patterns # <<>> \/ cfg.low_patterns # <<>>

\* the override loop of run: acc = [couplings, config]
RECURSIVE ApplyOverridesFrom(_, _)
ApplyOverridesFrom(i, acc) ==
    IF i > Len(acc.couplings) THEN acc
    ELSE LET r == get_volatility_override(acc.config, acc.couplings[i].target)
         IN ApplyOverridesFrom(i + 1,
                [couplings |-> IF r.result # None
                               THEN [acc.couplings EXCEPT ![i].volatility = r.result[1]]
                               ELSE acc.couplings,
                 config |-> r.config])

----------------------------------------------------------------------------
(* The run of src/main.rs: analysis, git fold, configuration overrides *)

D_crate_balance_Score == <<"c", "r", "a", "t", "e", ":", ":", "b", "a", "l", "a", "n", "c", "e", ":", ":", "S", "c", "o", "r", "e">>
D_super_main == <<"s", "u", "p", "e", "r", ":", ":", "m", "a", "i", "n">>
D_serde_json_Value == <<"s", "e", "r", "d", "e", "_", "j", "s", "o", "n", ":", ":", "V", "a", "l", "u", "e">>
D_core_utils_Thing == <<"c", "o", "r", "e", "_", "u", "t", "i", "l", "s", ":", ":", "T", "h", "i", "n", "g">>
D_config == <<"c", "o", "n", "f", "i", "g">>
N_main == <<"m", "a", "i", "n">>
N_balance == <<"b", "a", "l", "a", "n", "c", "e">>
N_app == <<"a", "p", "p">>
N_core_utils == <<"c", "o", "r", "e", "_", "u", "t", "i", "l", "s">>
N_Score == <<"S", "c", "o", "r", "e">>
N_report == <<"r", "e", "p", "o", "r", "t">>
N_analyzer == <<"a", "n", "a", "l", "y", "z", "e", "r">>
N_serde_json == <<"s", "e", "r", "d", "e", "_", "j", "s", "o", "n">>

MaxRunFiles == 2

RunPaths == {D_crate_balance_Score, D_super_main, D_serde_json_Value,
             D_core_utils_Thing, D_config}

RunDependency(p, u) == [path |-> p, usage |-> u, line |-> 0]

\* the dependency lists a file may carry
RunDependencyLists ==
    {<<>>}
    \cup {<<RunDependency(p, u)>> : p \in RunPaths, u \in UsageContexts}
    \cup {<<RunDependency(D_crate_balance_Score, "FieldAccess"),
            RunDependency(D_serde_json_Value, "TraitBound")>>,
          <<RunDependency(D_config, "MethodCall"),
            RunDependency(D_super_main, "Import")>>}

\* the k-th file of a project: its module name and the types it declares
RunModuleNames == <<N_main, N_balance, N_report, N_analyzer>>
RunTypeVisibility == <<<<>>, (N_Score :> "Private"), <<>>, <<>>>>

RunFile(k, deps) ==
    [module_name |-> RunModuleNames[k], crate_name |-> N_app,
     dependencies |-> deps, type_visibility |-> RunTypeVisibility[k]]

\* the first file carries any of the lists, the files after it one of two
RunOtherLists == {<<>>, <<RunDependency(D_super_main, "TypeParameter")>>}

RunProjects ==
    UNION {{[k \in 1..n |-> RunFile(k, ds[k])] :
                ds \in {f \in [1..n -> RunDependencyLists] :
                           \A k \in 2..n : f[k] \in RunOtherLists}} :
           n \in 1..MaxRunFiles}

RunWorkspaces == {None, Some([members |-> {N_app, N_core_utils}])}

RunConfig(h, m, l) ==
    [high_patterns |-> h, medium_patterns |-> m, low_patterns |-> l, cache |-> <<>>]

G_app_any == <<"a", "p", "p", ":", ":", "*">>
G_core_utils_any == <<"c", "o", "r", "e", "_", "u", "t", "i", "l", "s", ":", ":", "*">>
G_any == <<"*">>

RunConfigs ==
    {RunConfig(<<>>, <<>>, <<>>),
     RunConfig(<<N_balance, N_serde_json>>, <<G_app_any>>, <<>>),
     RunConfig(<<>>, <<G_core_utils_any>>, <<G_any>>)}

\* the empty map: a history in which no Rust file changed
RunGitMaps == {<<>>, (P_balance :> 11), (P_lib :> 3) @@ (P_my_mod :> 2)}

InitRun ==
    /\ pc = "run_analyze"
    /\ analyzed \in RunProjects
    /\ workspace \in RunWorkspaces
    /\ config \in RunConfigs
    /\ couplings = <<>> /\ origin = <<>> /\ file_changes = <<>>
    /\ type_registry = <<>>
    /\ IdleBalance /\ Idle /\ IdleCycle
    /\ IdleStage

\* analyze_workspace without usable cargo metadata: analyze_project
AnalyzeProject ==
    /\ pc = "run_analyze" /\ workspace = None
    /\ LET project == analyze_project_parallel(analyzed)
           names == ModuleNamesOf(analyzed)
       IN /\ couplings' = project.couplings
          /\ type_registry' = project.type_registry
          /\ origin' = FlattenSeq([i \in 1..Len(analyzed) |->
                                      OriginsOfFile(analyzed[i], names)])
    /\ pc' = "run_git"
    /\ UNCHANGED <<analyzed, workspace, config, file_changes>>
    /\ UNCHANGED <<balanceVars, gradeVars, cycleVars>>
    /\ UNCHANGED stageVars

\* analyze_workspace with cargo metadata: analyze_with_workspace
AnalyzeWithWorkspace ==
    /\ pc = "run_analyze" /\ workspace # None
    /\ LET project == analyze_with_workspace(analyzed, workspace[1])
           names == ModuleNamesOf(analyzed)
       IN /\ couplings' = project.couplings
          /\ type_registry' = project.type_registry
          /\ origin' = FlattenSeq([i \in 1..Len(analyzed) |->
                                      OriginsOfFile(analyzed[i], names)])
    /\ pc' = "run_git"
    /\ UNCHANGED <<analyzed, workspace, config, file_changes>>
    /\ UNCHANGED <<balanceVars, gradeVars, cycleVars>>
    /\ UNCHANGED stageVars

\* the git analysis succeeded: the change counts are stored and folded in
GitFold ==
    /\ pc = "run_git"
    /\ \E changes \in RunGitMaps :
          /\ file_changes' = changes
          /\ couplings' = update_volatility_from_git(couplings, changes)
    /\ pc' = "run_override"
    /\ UNCHANGED <<origin, analyzed, workspace, config, type_registry>>
    /\ UNCHANGED <<balanceVars, gradeVars, cycleVars>>
    /\ UNCHANGED stageVars

\* --no-git, or the git analysis failed
GitSkip ==
    /\ pc = "run_git"
    /\ pc' = "run_override"
    /\ UNCHANGED <<projectVars, balanceVars, gradeVars, cycleVars>>
    /\ UNCHANGED stageVars

\* the override loop, entered only when the configuration has patterns
ApplyOverrides ==
    /\ pc = "run_override"
    /\ LET acc == IF has_volatility_overrides(config)
                  THEN ApplyOverridesFrom(1, [couplings |-> couplings,
                                              config |-> config])
                  ELSE [couplings |-> couplings, config |-> config]
       IN couplings' = acc.couplings /\ config' = acc.config
    /\ pc' = "run_done"
    /\ UNCHANGED <<origin, analyzed, workspace, file_changes, type_registry>>
    /\ UNCHANGED <<balanceVars, gradeVars, cycleVars>>
    /\ UNCHANGED stageVars

NextRun ==
    \/ AnalyzeProject
    \/ AnalyzeWithWorkspace
    \/ GitFold
    \/ GitSkip
    \/ ApplyOverrides

SpecRun == InitRun /\ [][NextRun]_vars

\* the strength table of the usage contexts, as a relation
StrengthTable ==
    ({"FieldAccess", "StructConstruction", "InherentImplBlock"} \X {"Intrusive"})
    \cup ({"MethodCall", "FunctionCall", "FunctionParameter", "ReturnType"}
              \X {"Functional"})
    \cup ({"TypeParameter", "Import"} \X {"Model"})
    \cup ({"TraitBound"} \X {"Contract"})

\* C6: once the aggregator (analyze_project_parallel or analyze_with_workspace)
\* has emitted the couplings, there is one coupling per surviving dependency
\* and each coupling's strength is the table's strength for the usage context
\* of the dependency it came from; this stays so after the visibility update,
\* after the git volatility fold and after the configuration overrides.
C6_StrengthFromUsage ==
    pc \in {"run_git", "run_override", "run_done"} =>
        /\ Len(couplings) = Len(origin)
        /\ \A i \in 1..Len(couplings) :
               <<origin[i], couplings[i].strength>> \in StrengthTable

\* C6 witness: a run has finished in which a coupling born from a field access
\* had its volatility changed by a later step and is still Intrusive, next to
\* a run-mate of another strength
C6_Witness ==
    /\ pc = "run_done"
    /\ \E i \in 1..Len(couplings) :
          /\ origin[i] = "FieldAccess"
          /\ couplings[i].strength = "Intrusive"
          /\ couplings[i].volatility # "Low"
    /\ \E j \in 1..Len(couplings) : couplings[j].strength = "Contract"

----------------------------------------------------------------------------
(* The registration pass (src/analyzer.rs first pass, register_type) *)

\* ProjectMetrics::register_type: HashMap::insert on the type name
register_type(registry, type_name, module_name, visibility) ==
    [t \in DOMAIN registry \cup {type_name} |->
        IF t = type_name
        THEN [module |-> module_name, visibility |-> visibility]
        ELSE registry[t]]

N_Config == <<"C", "o", "n", "f", "i", "g">>

MaxRegFiles == 2

RegTypeNames == {N_Score, N_Config}
RegVisibilities == {"Public", "PubCrate", "Private"}

\* the type_visibility maps a file may carry
RegTypeMaps ==
    UNION {[names -> RegVisibilities] : names \in SUBSET RegTypeNames}

RegProjects ==
    UNION {{[k \in 1..n |-> [module_name |-> RunModuleNames[k], crate_name |-> N_app,
                             dependencies |-> <<>>, type_visibility |-> tv[k]]] :
                tv \in [1..n -> RegTypeMaps]} : n \in 1..MaxRegFiles}

\* the register_type calls of one file, in one of the orders its HashMap may
\* be iterated in
RegCallsOfFile(file) ==
    LET tv == file.type_visibility
        Call(t) == [type_name |-> t, module_name |-> file.module_name,
                    visibility |-> tv[t]]
        n == Cardinality(DOMAIN tv)
    IN {[i \in 1..n |-> Call(order[i])] :
            order \in {o \in [1..n -> DOMAIN tv] :
                          \A i, j \in 1..n : i # j => o[i] # o[j]}}

\* the register_type calls of the first pass: file after file
RECURSIVE RegCallOrders(_)
RegCallOrders(files) ==
    IF files = <<>> THEN {<<>>}
    ELSE {h \o t : h \in RegCallsOfFile(Head(files)),
                   t \in RegCallOrders(Tail(files))}

InitRegistry ==
    /\ pc = "register"
    /\ analyzed \in RegProjects
    /\ calls \in RegCallOrders(analyzed)
    /\ IdleExtractor /\ IdleParallel /\ IdleReport /\ IdleCli /\ IdleTools
    /\ type_registry = <<>>
    /\ couplings = <<>> /\ origin = <<>> /\ file_changes = <<>>
    /\ config = None /\ workspace = None
    /\ IdleBalance /\ Idle /\ IdleCycle

\* one iteration of the first pass
RegisterType ==
    /\ pc = "register" /\ calls # <<>>
    /\ type_registry' = register_type(type_registry, Head(calls).type_name,
                                      Head(calls).module_name,
                                      Head(calls).visibility)
    /\ calls' = Tail(calls)
    /\ UNCHANGED <<pc, couplings, origin, file_changes, analyzed, config, workspace>>
    /\ UNCHANGED <<extractVars, parallelVars, reportVars, cliVars, lateVars, visitVars, lookupVars, hotspotVars>>
    /\ UNCHANGED <<balanceVars, gradeVars, cycleVars>>

\* the first pass is over
RegistrationDone ==
    /\ pc = "register" /\ calls = <<>>
    /\ pc' = "registered"
    /\ UNCHANGED <<projectVars, balanceVars, gradeVars, cycleVars, stageVars>>

NextRegistry ==
    \/ RegisterType
    \/ RegistrationDone

SpecRegistry == InitRegistry /\ [][NextRegistry]_vars

\* the first file of the project that declares type t
FirstDeclaring(t) ==
    CHOOSE i \in 1..Len(analyzed) :
        /\ t \in DOMAIN analyzed[i].type_visibility
        /\ \A j \in 1..(i - 1) : t \notin DOMAIN analyzed[j].type_visibility

\* C11: after the registration pass the registry maps every declared type
\* name to the module and visibility of the first file that declares it
\* (first writer wins, later registrations of the name change nothing).
C11_FirstWriterWins ==
    pc = "registered" =>
        \A t \in DOMAIN type_registry :
            type_registry[t] =
                [module |-> analyzed[FirstDeclaring(t)].module_name,
                 visibility |-> analyzed[FirstDeclaring(t)].type_visibility[t]]

----------------------------------------------------------------------------
(* The extractor's dependency list (CouplingAnalyzer::add_dependency) and *)
(* the couplings the aggregator builds from it                            *)

D_crate_models_User == <<"c", "r", "a", "t", "e", ":", ":", "m", "o", "d", "e", "l", "s", ":", ":", "U", "s", "e", "r">>
D_crate_models_Post == <<"c", "r", "a", "t", "e", ":", ":", "m", "o", "d", "e", "l", "s", ":", ":", "P", "o", "s", "t">>
N_models == <<"m", "o", "d", "e", "l", "s">>

MaxRefs == 3

\* what the visitor may report for the file main of a project <<main, models>>
ExtractRefs ==
    {[path |-> p, usage |-> u] :
        p \in {D_crate_models_User, D_crate_models_Post, D_serde_json_Value},
        u \in {"Import", "FieldAccess"}}

InitExtract ==
    /\ pc = "extract"
    /\ references \in UNION {[1..n -> ExtractRefs] : n \in 0..MaxRefs}
    /\ seen_dependencies = {} /\ dependencies = <<>> /\ distances = None
    /\ IdleReg /\ IdleParallel /\ IdleReport /\ IdleCli /\ IdleTools
    /\ IdleProject /\ IdleBalance /\ Idle /\ IdleCycle

\* CouplingAnalyzer::add_dependency, called for the next reference
AddDependency ==
    /\ pc = "extract" /\ references # <<>>
    /\ LET key == <<Head(references).path, Head(references).usage>>
       IN IF key \in seen_dependencies
          THEN UNCHANGED <<seen_dependencies, dependencies>>
          ELSE /\ seen_dependencies' = seen_dependencies \cup {key}
               /\ dependencies' = Append(dependencies,
                      [path |-> Head(references).path,
                       usage |-> Head(references).usage, line |-> 0])
    /\ references' = Tail(references)
    /\ UNCHANGED <<pc, distances, regVars, parallelVars, reportVars, cliVars, lateVars, visitVars, lookupVars, hotspotVars>>
    /\ UNCHANGED <<projectVars, balanceVars, gradeVars, cycleVars>>

\* the file is done; the aggregator merges it with the (empty) file models
Aggregate ==
    /\ pc = "extract" /\ references = <<>>
    /\ analyzed' = <<[module_name |-> N_main, crate_name |-> N_app,
                      dependencies |-> dependencies, type_visibility |-> <<>>],
                     [module_name |-> N_models, crate_name |-> N_app,
                      dependencies |-> <<>>, type_visibility |-> <<>>]>>
    /\ LET project == analyze_project_parallel(analyzed')
       IN /\ couplings' = project.couplings
          /\ type_registry' = project.type_registry
          /\ origin' = FlattenSeq([i \in 1..Len(analyzed') |->
                            OriginsOfFile(analyzed'[i], ModuleNamesOf(analyzed'))])
    /\ pc' = "extracted"
    /\ UNCHANGED <<file_changes, config, workspace>>
    /\ UNCHANGED <<balanceVars, gradeVars, cycleVars, stageVars>>

NextExtract ==
    \/ AddDependency
    \/ Aggregate

SpecExtract == InitExtract /\ [][NextExtract]_vars

\* C12: among the couplings emitted for one source file no two have the
\* same source module, target and usage context.
C12_NoDuplicateCouplings ==
    pc = "extracted" =>
        \A i, j \in 1..Len(couplings) :
            (/\ i # j
             /\ couplings[i].source = couplings[j].source
             /\ couplings[i].target = couplings[j].target)
                => origin[i] # origin[j]

----------------------------------------------------------------------------
(* Distance of a dependency path, with and without workspace metadata *)

N_User == <<"U", "s", "e", "r">>

DistancePrefixes == {<<>>, PrefixCrate, PrefixSelf, PrefixSuper}
DistanceHeads == {N_balance, N_app, N_core_utils, N_serde_json, N_models}
DistanceTails == {N_Score, N_User}

DistancePaths ==
    {pre \o h \o SepColons \o t :
        pre \in DistancePrefixes, h \in DistanceHeads, t \in DistanceTails}

DistanceWorkspaces ==
    {Some([members |-> {N_app} \cup others]) :
        others \in SUBSET {N_core_utils, N_models}}

InitDistance ==
    /\ pc = "distance"
    /\ references \in {<<[path |-> p, usage |-> "Import"]>> : p \in DistancePaths}
    /\ workspace \in DistanceWorkspaces
    /\ distances = [basic |-> None, with_workspace |-> None]
    /\ seen_dependencies = {} /\ dependencies = <<>>
    /\ IdleReg /\ IdleParallel /\ IdleReport /\ IdleCli /\ IdleTools
    /\ couplings = <<>> /\ origin = <<>> /\ file_changes = <<>>
    /\ analyzed = <<>> /\ config = None /\ type_registry = <<>>
    /\ IdleBalance /\ Idle /\ IdleCycle

\* the distance the run without workspace metadata gives the path
CalculateDistance ==
    /\ pc = "distance" /\ distances.basic = None
    /\ distances' = [distances EXCEPT
                       !.basic = Some(calculate_distance(references[1].path))]
    /\ UNCHANGED <<pc, references, seen_dependencies, dependencies>>
    /\ UNCHANGED <<regVars, parallelVars, reportVars, cliVars, lateVars, visitVars, lookupVars, hotspotVars>>
    /\ UNCHANGED <<projectVars, balanceVars, gradeVars, cycleVars>>

\* the distance the workspace-aware run gives the path, in crate app
CalculateDistanceWithWorkspace ==
    /\ pc = "distance" /\ distances.with_workspace = None
    /\ distances' = [distances EXCEPT
                       !.with_workspace =
                           Some(calculate_distance_with_workspace(
                                    references[1].path, N_app, workspace[1]))]
    /\ UNCHANGED <<pc, references, seen_dependencies, dependencies>>
    /\ UNCHANGED <<regVars, parallelVars, reportVars, cliVars, lateVars, visitVars, lookupVars, hotspotVars>>
    /\ UNCHANGED <<projectVars, balanceVars, gradeVars, cycleVars>>

NextDistance ==
    \/ CalculateDistance
    \/ CalculateDistanceWithWorkspace

SpecDistance == InitDistance /\ [][NextDistance]_vars

\* the distance table of a path in crate app
DistanceTable(p, members) ==
    LET head == Split(p, SepColons)[1]
    IN IF StartsWith(p, PrefixCrate) \/ StartsWith(p, PrefixSelf) THEN "SameModule"
       ELSE IF StartsWith(p, PrefixSuper) THEN "DifferentModule"
       ELSE IF head = N_app THEN "SameModule"
       ELSE IF head \in members THEN "DifferentModule"
       ELSE "DifferentCrate"

\* C13: the workspace-aware distance of a path is SameModule for crate:: and
\* self::, DifferentModule for super::, otherwise decided by the head segment
\* (own crate -> SameModule, other member -> DifferentModule, unknown ->
\* DifferentCrate); and the distance computed without a workspace is the
\* same for every crate::, self:: or super:: path.
C13_Distance ==
    LET p == references[1].path
    IN (pc = "distance" /\ distances.with_workspace # None) =>
          /\ distances.with_workspace[1] = DistanceTable(p, workspace[1].members)
          /\ (/\ distances.basic # None
              /\ \/ StartsWith(p, PrefixCrate) \/ StartsWith(p, PrefixSelf)
                 \/ StartsWith(p, PrefixSuper))
                => distances.basic = distances.with_workspace

----------------------------------------------------------------------------
(* analyze_project_parallel from the top-level path: per-file failures *)

\* mutant: a file that fails to parse is kept with what was extracted
AnalyzedResults_keep_parse_failed(results) ==
    LET Kept(r) == r.error \in {None, Some("ParseError")}
        kept == SelectSeq(results, Kept)
    IN [i \in 1..Len(kept) |-> kept[i].file]

\* the filter_map over analyze_rust_file_full: Ok(result) => Some(AnalyzedFile),
\* Err(e) => None
AnalyzedResults(results) ==
    LET Succeeded(r) == r.error = None
        kept == SelectSeq(results, Succeeded)
    IN [i \in 1..Len(kept) |-> kept[i].file]

\* analyze_project = analyze_project_parallel, from the path check on
analyze_project(exists, results) ==
    IF ~exists
    THEN [ok |-> FALSE, error |-> "InvalidPath"]
    ELSE LET analyzed_results == AnalyzedResults(results)
             merged == analyze_project_parallel(analyzed_results)
         IN [ok |-> TRUE,
             total_files |-> Len(analyzed_results),
             modules |-> ModuleNamesOf(analyzed_results),
             couplings |-> merged.couplings,
             type_registry |-> merged.type_registry]

MaxParFiles == 2

ParDependencyLists ==
    {<<>>,
     <<RunDependency(D_crate_balance_Score, "FieldAccess")>>,
     <<RunDependency(D_super_main, "Import")>>}

ParTypeMaps == {<<>>, (N_Score :> "Private")}

\* io::Error from read_to_string, ParseError from syn::parse_file
ParErrors == {None, Some("Io"), Some("ParseError")}

\* what analyze_rust_file_full makes of the k-th file: the extraction and the
\* error that ended it, if any
ParResults(k) ==
    {[file |-> [module_name |-> RunModuleNames[k], crate_name |-> N_app,
                dependencies |-> ds, type_visibility |-> tv],
      error |-> e] :
        ds \in ParDependencyLists, tv \in ParTypeMaps, e \in ParErrors}

InitParallel ==
    /\ pc = "parallel"
    /\ path_exists \in BOOLEAN
    /\ file_results \in
          IF path_exists
          THEN UNION {{f \in [1..n -> UNION {ParResults(k) : k \in 1..n}] :
                           \A k \in 1..n : f[k] \in ParResults(k)} :
                      n \in 0..MaxParFiles}
          ELSE {<<>>}
    /\ par_result = None
    /\ IdleReg /\ IdleExtractor /\ IdleReport /\ IdleCli /\ IdleTools
    /\ IdleProject /\ IdleBalance /\ Idle /\ IdleCycle

AnalyzeProjectParallel ==
    /\ pc = "parallel" /\ par_result = None
    /\ par_result' = Some(analyze_project(path_exists, file_results))
    /\ UNCHANGED <<pc, path_exists, file_results, regVars, extractVars,
                   reportVars, cliVars, lateVars, visitVars, lookupVars, hotspotVars>>
    /\ UNCHANGED <<projectVars, balanceVars, gradeVars, cycleVars>>

NextParallel == AnalyzeProjectParallel

SpecParallel == InitParallel /\ [][NextParallel]_vars

\* the files analyzed successfully, in file order
RECURSIVE OkFilesFrom(_)
OkFilesFrom(i) ==
    IF i > Len(file_results) THEN <<>>
    ELSE (IF file_results[i].error = None THEN <<file_results[i].file>> ELSE <<>>)
             \o OkFilesFrom(i + 1)

\* C14: for an existing path the call returns Ok whatever the per-file
\* outcomes; total_files is the number of files analyzed successfully, and
\* modules, couplings and registry are those of the successful files alone
\* (a failed file leaves no module, coupling or registry entry under its
\* name, unless a successful file has the same name).  For a missing path the call returns InvalidPath and nothing else.
C14_BrokenFileDropped ==
    par_result # None =>
        LET r == par_result[1]
            ok == OkFilesFrom(1)
        IN IF path_exists
           THEN /\ r.ok
                /\ r.total_files = Cardinality({i \in 1..Len(file_results) :
                                                   file_results[i].error = None})
                /\ r.modules = {ok[i].module_name : i \in 1..Len(ok)}
                /\ r.couplings = analyze_project_parallel(ok).couplings
                /\ r.type_registry = RegisterTypes(ok, <<>>)
                /\ \A i \in 1..Len(file_results) :
                      (/\ file_results[i].error # None
                       /\ file_results[i].file.module_name \notin r.modules) =>
                          /\ \A c \in 1..Len(r.couplings) :
                                r.couplings[c].source # file_results[i].file.module_name
                          /\ \A t \in DOMAIN r.type_registry :
                                r.type_registry[t].module
                                    # file_results[i].file.module_name
           ELSE r = [ok |-> FALSE, error |-> "InvalidPath"]

\* C14 witness: the second file failed to parse although it declares a type
\* and has a dependency, the first file succeeded, and the call returned Ok
\* with one file
C14_Witness ==
    /\ par_result # None /\ path_exists
    /\ Len(file_results) = 2
    /\ file_results[1].error = None
    /\ file_results[2].error = Some("ParseError")
    /\ file_results[2].file.dependencies # <<>>
    /\ file_results[2].file.type_visibility # <<>>
    /\ par_result[1].total_files = 1

----------------------------------------------------------------------------
(* The project balance report (src/balance.rs) *)

\* an f64 that is a ratio of two integers; compared by cross multiplication
Frac(n, d) == [num |-> n, den |-> d]
FracLess(a, b) == a.num * b.den < b.num * a.den

\* the derived Ord of Severity: Low < Medium < High < Critical
SeverityRank(sev) ==
    CASE sev = "Low" -> 1 [] sev = "Medium" -> 2
      [] sev = "High" -> 3 [] sev = "Critical" -> 4

\* every order in which a HashMap may hand out the elements of S
Orders(S) ==
    LET n == Cardinality(S)
    IN {o \in [1..n -> S] : \A i, j \in 1..n : i # j => o[i] # o[j]}

\* every concatenation of one choice per position of a sequence of sets of
\* sequences
RECURSIVE ConcatChoices(_)
ConcatChoices(sets) ==
    IF sets = <<>> THEN {<<>>}
    ELSE {h \o t : h \in Head(sets), t \in ConcatChoices(Tail(sets))}

\* IssueThresholds::default
DefaultThresholds ==
    [max_dependencies |-> 20, max_dependents |-> 30, max_functions |-> 30,
     max_types |-> 15, max_impls |-> 20, min_primitive_params |-> 3]

\* identify_issues_with_thresholds, with the source and target of the issue
CouplingIssues(c) ==
    LET found == identify_issues(c)
    IN [i \in 1..Len(found) |->
           [issue_type |-> found[i].issue_type, severity |-> found[i].severity,
            source |-> c.source, target |-> c.target,
            balance_score |-> Frac(found[i].balance_score, 64)]]

\* number of couplings of cs, other than DifferentCrate ones, whose field f
\* is the module m
InternalCount(cs, f, m) ==
    Cardinality({i \in 1..Len(cs) :
                    cs[i].distance # "DifferentCrate" /\ cs[i][f] = m})

Min(a, b) == IF a <= b THEN a ELSE b

\* analyze_module_coupling: the possible issue vectors
analyze_module_coupling(cs, th) ==
    LET internal == {i \in 1..Len(cs) : cs[i].distance # "DifferentCrate"}
        efferent == [m \in {cs[i].source : i \in internal} |->
                        InternalCount(cs, "source", m)]
        afferent == [m \in {cs[i].target : i \in internal} |->
                        InternalCount(cs, "target", m)]
        Score(count, max) == Frac(3 * max - Min(count, 3 * max), 3 * max)
        eff == {[issue_type |-> "HighEfferentCoupling",
                 severity |-> IF efferent[m] > th.max_dependencies * 2
                              THEN "High" ELSE "Medium",
                 source |-> m, target |-> <<efferent[m], "dependencies">>,
                 balance_score |-> Score(efferent[m], th.max_dependencies)] :
                   m \in {x \in DOMAIN efferent :
                             efferent[x] > th.max_dependencies}}
        aff == {[issue_type |-> "HighAfferentCoupling",
                 severity |-> IF afferent[m] > th.max_dependents * 2
                              THEN "High" ELSE "Medium",
                 source |-> <<afferent[m], "dependents">>, target |-> m,
                 balance_score |-> Score(afferent[m], th.max_dependents)] :
                   m \in {x \in DOMAIN afferent :
                             afferent[x] > th.max_dependents}}
    IN {e \o a : e \in Orders(eff), a \in Orders(aff)}

\* ModuleMetrics::is_god_module
is_god_module(module, max_functions, max_types, max_impls) ==
    \/ Cardinality(DOMAIN module.function_definitions) > max_functions
    \/ Cardinality(DOMAIN module.type_definitions) > max_types
    \/ module.trait_impl_count + module.inherent_impl_count > max_impls

\* the Primitive Obsession test of analyze_rust_patterns (ratio >= 0.6)
PrimitiveObsessed(func_def, th) ==
    /\ func_def.primitive_param_count >= th.min_primitive_params
    /\ func_def.param_count >= th.min_primitive_params
    /\ 5 * func_def.primitive_param_count >= 3 * func_def.param_count

\* analyze_rust_patterns for one module: the possible issue vectors
RustPatternsOfModule(module_name, module, th) ==
    LET func_count == Cardinality(DOMAIN module.function_definitions)
        type_count == Cardinality(DOMAIN module.type_definitions)
        impl_count == module.trait_impl_count + module.inherent_impl_count
        god == IF is_god_module(module, th.max_functions, th.max_types, th.max_impls)
               THEN <<[issue_type |-> "GodModule",
                       severity |-> IF \/ func_count > th.max_functions * 2
                                       \/ type_count > th.max_types * 2
                                    THEN "High" ELSE "Medium",
                       source |-> module_name,
                       target |-> <<func_count, type_count, impl_count>>,
                       balance_score |-> Frac(1, 2)]>>
               ELSE <<>>
        exposed == {[issue_type |-> "PublicFieldExposure", severity |-> "Low",
                     source |-> module_name \o SepColons
                                   \o module.type_definitions[t].name,
                     target |-> <<module.type_definitions[t].public_field_count>>,
                     balance_score |-> Frac(7, 10)] :
                       t \in {x \in DOMAIN module.type_definitions :
                                 /\ module.type_definitions[x].public_field_count > 0
                                 /\ ~module.type_definitions[x].is_trait
                                 /\ module.type_definitions[x].visibility = "Public"}}
        obsessed == {[issue_type |-> "PrimitiveObsession", severity |-> "Low",
                      source |-> module_name \o SepColons
                                    \o module.function_definitions[f].name,
                      target |-> <<module.function_definitions[f].primitive_param_count,
                                   module.function_definitions[f].param_count>>,
                      balance_score |-> Frac(7, 10)] :
                        f \in {x \in DOMAIN module.function_definitions :
                                  PrimitiveObsessed(module.function_definitions[x], th)}}
    IN {god \o e \o o : e \in Orders(exposed), o \in Orders(obsessed)}

\* analyze_rust_patterns: the possible issue vectors
analyze_rust_patterns(ms, th) ==
    UNION {ConcatChoices([i \in 1..Len(order) |->
                             RustPatternsOfModule(order[i], ms[order[i]], th)]) :
              order \in Orders(DOMAIN ms)}

\* the comparator of all_issues.sort_by: severity descending, then balance
\* score ascending
IssueBefore(a, b) ==
    \/ SeverityRank(a.severity) > SeverityRank(b.severity)
    \/ /\ a.severity = b.severity
       /\ FracLess(a.balance_score, b.balance_score)

\* slice::sort_by is stable: x goes behind everything it is not before
InsertIssue(sorted, x) ==
    LET behind == {i \in 1..Len(sorted) : ~IssueBefore(x, sorted[i])}
        k == IF behind = {} THEN 0
             ELSE CHOOSE i \in behind : \A j \in behind : j <= i
    IN SubSeq(sorted, 1, k) \o <<x>> \o SubSeq(sorted, k + 1, Len(sorted))

RECURSIVE SortIssues(_, _)
SortIssues(sorted, rest) ==
    IF rest = <<>> THEN sorted
    ELSE SortIssues(InsertIssue(sorted, Head(rest)), Tail(rest))

CountWhere(seq, Test(_)) == Cardinality({i \in 1..Len(seq) : Test(seq[i])})

\* analyze_project_balance_with_thresholds, given the vectors returned by
\* analyze_module_coupling and analyze_rust_patterns
BalanceReport(cs, module_issues, rust_issues) ==
    LET internal == SelectSeq(cs, LAMBDA c : c.distance # "DifferentCrate")
        scores == [i \in 1..Len(internal) |-> calculate(internal[i])]
        coupling_issues ==
            FlattenSeq([i \in 1..Len(internal) |-> CouplingIssues(internal[i])])
        all_issues ==
            SortIssues(<<>>, coupling_issues \o module_issues \o rust_issues)
        Sev(x) == CountWhere(all_issues, LAMBDA i : i.severity = x)
        issues_by_severity ==
            [critical |-> Sev("Critical"), high |-> Sev("High"),
             medium |-> Sev("Medium"), low |-> Sev("Low")]
    IN [total_couplings |-> Len(cs),
        balanced_count |-> CountWhere(scores, is_balanced),
        needs_review |->
            CountWhere(scores, LAMBDA b : b.interpretation = "NeedsReview"),
        needs_refactoring |-> CountWhere(scores, needs_refactoring),
        average_score |->
            IF scores = <<>> THEN Frac(1, 1)
            ELSE Frac(SeqSum([i \in 1..Len(scores) |-> scores[i].score]),
                      64 * Len(scores)),
        health_grade |-> calculate_health_grade(issues_by_severity, Len(internal)),
        issues_by_severity |-> issues_by_severity,
        issues_by_type |->
            [t \in {all_issues[i].issue_type : i \in 1..Len(all_issues)} |->
                CountWhere(all_issues, LAMBDA i : i.issue_type = t)],
        issues |-> all_issues,
        top_priorities |-> SubSeq(all_issues, 1, Min(5, Len(all_issues)))]

\* analyze_project_balance_with_thresholds: the possible reports
analyze_project_balance_with_thresholds(cs, ms, th) ==
    {BalanceReport(cs, mi, ri) :
        mi \in analyze_module_coupling(cs, th),
        ri \in analyze_rust_patterns(ms, th)}

\* the report is computed for the project in couplings and modules
AnalyzeProjectBalance ==
    /\ pc = "report" /\ report = None
    /\ \E r \in analyze_project_balance_with_thresholds(couplings, modules,
                                                        thresholds[1]) :
          report' = Some(r)
    /\ pc' = "reported"
    /\ UNCHANGED <<modules, thresholds, regVars, extractVars, parallelVars,
                   cliVars, lateVars, visitVars, lookupVars, hotspotVars>>
    /\ UNCHANGED <<projectVars, balanceVars, gradeVars, cycleVars>>

----------------------------------------------------------------------------
(* Specification SpecPatterns: the report of one module's declarations *)

N_f == <<"f">>
N_g == <<"g">>

MaxParams == 4

PatternFunctions(name) ==
    UNION {{[name |-> name, param_count |-> n, primitive_param_count |-> k] :
               k \in 0..n} : n \in 0..MaxParams}

PatternFunctionMaps ==
    UNION {{fm \in [names -> UNION {PatternFunctions(x) : x \in names}] :
               \A x \in names : fm[x].name = x} :
           names \in SUBSET {N_f, N_g}}

PatternTypeMaps ==
    {<<>>,
     (N_Score :> [name |-> N_Score, visibility |-> "Public", is_trait |-> FALSE,
                  public_field_count |-> 2]),
     (N_Score :> [name |-> N_Score, visibility |-> "Private", is_trait |-> FALSE,
                  public_field_count |-> 2])}

\* the defaults, and thresholds that make the declarations of one small
\* module count as too many
PatternThresholds ==
    {DefaultThresholds, [DefaultThresholds EXCEPT !.max_functions = 1]}

InitPatterns ==
    /\ pc = "report"
    /\ modules \in {(N_main :> [function_definitions |-> fm, type_definitions |-> tm,
                                trait_impl_count |-> 0, inherent_impl_count |-> 0]) :
                       fm \in PatternFunctionMaps, tm \in PatternTypeMaps}
    /\ thresholds \in {Some(t) : t \in PatternThresholds}
    /\ report = None
    /\ IdleReg /\ IdleExtractor /\ IdleParallel /\ IdleCli /\ IdleTools
    /\ IdleProject /\ IdleBalance /\ Idle /\ IdleCycle

NextPatterns == AnalyzeProjectBalance

SpecPatterns == InitPatterns /\ [][NextPatterns]_vars

\* C15: the report holds a PrimitiveObsession issue (Low) for a function
\* exactly when the function has at least 3 parameters and at least 60% of
\* them are primitive, and then exactly one.
C15_PrimitiveObsession ==
    (pc = "reported" /\ thresholds[1].min_primitive_params = 3) =>
        \A m \in DOMAIN modules :
            \A f \in DOMAIN modules[m].function_definitions :
                LET func_def == modules[m].function_definitions[f]
                    found == {i \in 1..Len(report[1].issues) :
                                 /\ report[1].issues[i].issue_type = "PrimitiveObsession"
                                 /\ report[1].issues[i].source = m \o SepColons \o f}
                IN /\ Cardinality(found) =
                          (IF /\ func_def.param_count >= 3
                              /\ 5 * func_def.primitive_param_count
                                     >= 3 * func_def.param_count
                           THEN 1 ELSE 0)
                   /\ \A i \in found : report[1].issues[i].severity = "Low"

----------------------------------------------------------------------------
(* Specification SpecModuleCoupling: thresholds from the command line and *)
(* the configuration file, then the report of a project's couplings       *)

\* default_max_dependencies / default_max_dependents of src/config.rs
default_max_dependencies == 15
default_max_dependents == 20

\* ThresholdsConfig as deserialized: a missing key takes its serde default;
\* without a file CouplingConfig::default() or CompiledConfig::empty()
ThresholdsConfig(file) ==
    IF file = None
    THEN [max_dependencies |-> default_max_dependencies,
          max_dependents |-> default_max_dependents]
    ELSE [max_dependencies |-> IF file[1].max_dependencies = None
                               THEN default_max_dependencies
                               ELSE file[1].max_dependencies[1],
          max_dependents |-> IF file[1].max_dependents = None
                             THEN default_max_dependents
                             ELSE file[1].max_dependents[1]]

\* glob::Pattern::new succeeds: no run of three or more '*', and a '**' only
\* as a whole path component
PatternNewOk(p) ==
    \A i \in 1..(Len(p) - 1) :
        (p[i] = "*" /\ p[i + 1] = "*" /\ (i = 1 \/ p[i - 1] # "*")) =>
            /\ i + 2 <= Len(p) => p[i + 2] = "/"
            /\ i > 1 => p[i - 1] = "/"

\* CompiledConfig::empty
CompiledConfigEmpty ==
    [high_patterns |-> <<>>, medium_patterns |-> <<>>, low_patterns |-> <<>>,
     thresholds |-> ThresholdsConfig(None), cache |-> <<>>]

\* load_compiled_config: load_config, then CompiledConfig::from_config
load_compiled_config(file) ==
    IF file = None THEN [ok |-> TRUE, config |-> CompiledConfigEmpty]
    ELSE IF ~file[1].parses THEN [ok |-> FALSE, error |-> "ParseError"]
    ELSE IF \E l \in {file[1].high, file[1].medium, file[1].low} :
               \E i \in 1..Len(l) : ~PatternNewOk(l[i])
    THEN [ok |-> FALSE, error |-> "PatternError"]
    ELSE [ok |-> TRUE,
          config |-> [high_patterns |-> file[1].high,
                      medium_patterns |-> file[1].medium,
                      low_patterns |-> file[1].low,
                      thresholds |-> ThresholdsConfig(file), cache |-> <<>>]]

\* the thresholds run hands to the report
RunThresholds(a, cfg) ==
    [DefaultThresholds EXCEPT
        !.max_dependencies = IF a.max_deps = None
                             THEN cfg.thresholds.max_dependencies
                             ELSE a.max_deps[1],
        !.max_dependents = IF a.max_dependents = None
                           THEN cfg.thresholds.max_dependents
                           ELSE a.max_dependents[1]]

MaxModCouplings == 3

ModCouplings ==
    {[source |-> src, target |-> tgt, strength |-> "Model", distance |-> d,
      volatility |-> "Low"] :
        src \in {<<"a">>, <<"b">>}, tgt \in {<<"b">>, <<"c">>},
        d \in {"DifferentModule", "DifferentCrate"}}

ModArgs ==
    {[max_deps |-> d, max_dependents |-> t] :
        d \in {None, Some(1)}, t \in {None, Some(1)}}

\* a .coupling.toml: whether it reads and parses, its [thresholds] keys and
\* its [volatility] lists
ConfigFile(ok, md, mt, h, m, l) ==
    Some([parses |-> ok, max_dependencies |-> md, max_dependents |-> mt,
          high |-> h, medium |-> m, low |-> l])

ModConfigFiles ==
    {None,
     ConfigFile(TRUE, None, None, <<>>, <<>>, <<>>),
     ConfigFile(TRUE, Some(2), None, <<>>, <<>>, <<>>)}

InitModuleCoupling ==
    /\ pc = "load_config"
    /\ args \in {Some(a) : a \in ModArgs}
    /\ config_file \in ModConfigFiles
    /\ couplings \in UNION {[1..n -> ModCouplings] : n \in 0..MaxModCouplings}
    /\ origin = <<>> /\ file_changes = <<>> /\ analyzed = <<>> /\ config = None
    /\ type_registry = <<>> /\ workspace = None
    /\ IdleReport /\ IdleReg /\ IdleExtractor /\ IdleParallel /\ IdleTools
    /\ IdleBalance /\ Idle /\ IdleCycle

\* load_compiled_config, or CompiledConfig::empty() when it fails
LoadCompiledConfig ==
    /\ pc = "load_config"
    /\ LET loaded == load_compiled_config(config_file)
       IN config' = IF loaded.ok THEN loaded.config ELSE CompiledConfigEmpty
    /\ pc' = "thresholds"
    /\ UNCHANGED <<couplings, origin, file_changes, analyzed, type_registry,
                   workspace>>
    /\ UNCHANGED <<balanceVars, gradeVars, cycleVars, stageVars>>

\* CLI args override config, which overrides defaults
BuildThresholds ==
    /\ pc = "thresholds"
    /\ thresholds' = Some(RunThresholds(args[1], config))
    /\ pc' = "report"
    /\ UNCHANGED <<modules, report, regVars, extractVars, parallelVars, cliVars, lateVars, visitVars, lookupVars, hotspotVars>>
    /\ UNCHANGED <<projectVars, balanceVars, gradeVars, cycleVars>>

NextModuleCoupling ==
    \/ LoadCompiledConfig
    \/ BuildThresholds
    \/ AnalyzeProjectBalance

SpecModuleCoupling == InitModuleCoupling /\ [][NextModuleCoupling]_vars

\* the issues of one type in the report whose field f names module m
ModuleIssues(t, f, m) ==
    {i \in 1..Len(report[1].issues) :
        report[1].issues[i].issue_type = t /\ report[1].issues[i][f] = m}

\* the emission rule of one direction: field f of the couplings, threshold max
HubRule(t, f, max) ==
    \A m \in {couplings[i][f] : i \in 1..Len(couplings)} :
        LET count == Cardinality({i \in 1..Len(couplings) :
                                     /\ couplings[i][f] = m
                                     /\ couplings[i].distance # "DifferentCrate"})
            found == ModuleIssues(t, f, m)
        IN /\ Cardinality(found) = (IF count > max THEN 1 ELSE 0)
           /\ \A i \in found :
                 report[1].issues[i].severity =
                     (IF count > 2 * max THEN "High" ELSE "Medium")

\* C16: HighEfferentCoupling is reported for a module exactly when its
\* outgoing couplings other than DifferentCrate ones number more than
\* max_dependencies, High iff more than twice that, else Medium;
\* HighAfferentCoupling likewise for incoming couplings and max_dependents;
\* and when neither the command line nor the configuration file sets a
\* threshold, the thresholds in force are 20 and 30.
C16_HubIssues ==
    pc = "reported" =>
        /\ HubRule("HighEfferentCoupling", "source", thresholds[1].max_dependencies)
        /\ HubRule("HighAfferentCoupling", "target", thresholds[1].max_dependents)
        /\ (/\ args[1].max_deps = None
            /\ config_file = None \/ config_file[1].max_dependencies = None)
              => thresholds[1].max_dependencies = 20
        /\ (/\ args[1].max_dependents = None
            /\ config_file = None \/ config_file[1].max_dependents = None)
              => thresholds[1].max_dependents = 30

----------------------------------------------------------------------------
(* Specification SpecProjectBalance: analyze_project_balance over the *)
(* couplings of a project whose modules may depend on each other in a ring *)

MaxBalCouplings == 2

BalCouplings ==
    {c \in [source : CycleModules, target : CycleModules,
            strength : {"Model", "Intrusive"},
            distance : {"DifferentModule", "DifferentCrate"},
            volatility : {"Low"}] : c.source # c.target}

\* analyze_project_balance: the report under IssueThresholds::default()
InitProjectBalance ==
    /\ pc = "report"
    /\ couplings \in UNION {[1..n -> BalCouplings] : n \in 0..MaxBalCouplings}
    /\ origin = <<>> /\ file_changes = <<>> /\ analyzed = <<>> /\ config = None
    /\ type_registry = <<>> /\ workspace = None
    /\ modules = <<>> /\ thresholds = Some(DefaultThresholds) /\ report = None
    /\ IdleReg /\ IdleExtractor /\ IdleParallel /\ IdleCli /\ IdleTools
    /\ IdleBalance /\ Idle /\ IdleCycle

NextProjectBalance == AnalyzeProjectBalance

SpecProjectBalance == InitProjectBalance /\ [][NextProjectBalance]_vars

\* C17: when the internal coupling graph of the project has a circular
\* dependency, the issue list of the report holds a CircularDependency issue
\* of severity Critical, and the report's critical count is at least 1.
C17_CycleIsCritical ==
    (pc = "reported" /\ HasCycle(InternalEdges)) =>
        /\ \E i \in 1..Len(report[1].issues) :
              /\ report[1].issues[i].issue_type = "CircularDependency"
              /\ report[1].issues[i].severity = "Critical"
        /\ report[1].issues_by_severity.critical >= 1

----------------------------------------------------------------------------
(* The syntax visitor of src/analyzer.rs on the items of one file: use *)
(* declarations and functions whose bodies read fields                 *)

\* the names is_primitive_type matches literally
PrimitiveNames ==
    {<<"b", "o", "o", "l">>,
     <<"c", "h", "a", "r">>,
     <<"s", "t", "r">>,
     <<"u", "8">>,
     <<"u", "1", "6">>,
     <<"u", "3", "2">>,
     <<"u", "6", "4">>,
     <<"u", "1", "2", "8">>,
     <<"u", "s", "i", "z", "e">>,
     <<"i", "8">>,
     <<"i", "1", "6">>,
     <<"i", "3", "2">>,
     <<"i", "6", "4">>,
     <<"i", "1", "2", "8">>,
     <<"i", "s", "i", "z", "e">>,
     <<"f", "3", "2">>,
     <<"f", "6", "4">>,
     <<"S", "t", "r", "i", "n", "g">>,
     <<"S", "e", "l", "f">>,
     <<"(", ")">>,
     <<"O", "p", "t", "i", "o", "n">>,
     <<"R", "e", "s", "u", "l", "t">>,
     <<"V", "e", "c">>,
     <<"B", "o", "x">>,
     <<"R", "c">>,
     <<"A", "r", "c">>,
     <<"R", "e", "f", "C", "e", "l", "l">>,
     <<"C", "e", "l", "l">>,
     <<"M", "u", "t", "e", "x">>,
     <<"R", "w", "L", "o", "c", "k">>}

\* CouplingAnalyzer::is_primitive_type
is_primitive_type(type_name) ==
    \/ type_name \in PrimitiveNames
    \/ Len(type_name) <= 3 /\ \A i \in 1..Len(type_name) : IsLowercase(type_name[i])
    \/ StartsWith(type_name, <<"s", "e", "l", "f">>)

\* mutant: a path already seen is skipped whatever its usage context
add_dependency_by_path(an, dep_path, usage) ==
    IF \E key \in an.seen_dependencies : key[1] = dep_path THEN an
    ELSE [an EXCEPT !.seen_dependencies = @ \cup {<<dep_path, usage>>},
                    !.dependencies = Append(@, [path |-> dep_path, usage |-> usage,
                                                line |-> 0])]

\* CouplingAnalyzer::add_dependency on the analyzer an
add_dependency(an, dep_path, usage) ==
    IF <<dep_path, usage>> \in an.seen_dependencies THEN an
    ELSE [an EXCEPT !.seen_dependencies = @ \cup {<<dep_path, usage>>},
                    !.dependencies = Append(@, [path |-> dep_path, usage |-> usage,
                                                line |-> 0])]

\* CouplingAnalyzer::add_item_dependency
add_item_dependency(an, target, dep_type, expression) ==
    IF an.current_item = None THEN an
    ELSE LET target_module ==
                 IF target \in DOMAIN an.imported_types
                 THEN Some(an.imported_types[target])
                 ELSE IF target \in an.defined_types \/ target \in an.defined_functions
                 THEN Some(an.current_module)
                 ELSE None
         IN [an EXCEPT !.item_dependencies =
                Append(@, [source_item |-> an.current_item[1],
                           target |-> target, target_module |-> target_module,
                           dep_type |-> dep_type, line |-> 0,
                           expression |-> expression])]

\* visit_expr_field: node.base is Some(name) for a path expression and None
\* for any other expression
visit_expr_field(an, node) ==
    IF node.base = None THEN an
    ELSE LET base_name == node.base[1]
             full_path == IF base_name \in DOMAIN an.imported_types
                          THEN an.imported_types[base_name] ELSE base_name
             an1 == IF ~is_primitive_type(full_path) /\ full_path \notin an.defined_types
                    THEN add_dependency(an, full_path, "FieldAccess")
                    ELSE an
         IN add_item_dependency(an1, full_path \o <<".">> \o node.member,
                                "FieldAccess",
                                Some(base_name \o <<".">> \o node.member))

\* analyze_signature: sig.inputs are [pat, ty], sig.output is None or Some(ty)
RECURSIVE AnalyzeInputs(_, _)
AnalyzeInputs(an, inputs) ==
    IF inputs = <<>> THEN an
    ELSE AnalyzeInputs(IF ~is_primitive_type(Head(inputs).ty)
                       THEN add_dependency(an, Head(inputs).ty, "FunctionParameter")
                       ELSE an,
                       Tail(inputs))

analyze_signature(an, sig) ==
    LET an1 == AnalyzeInputs(an, sig.inputs)
    IN IF sig.output # None /\ ~is_primitive_type(sig.output[1])
       THEN add_dependency(an1, sig.output[1], "ReturnType")
       ELSE an1

\* the field expressions of a function body, visited in order
RECURSIVE VisitBody(_, _)
VisitBody(an, body) ==
    IF body = <<>> THEN an
    ELSE VisitBody(visit_expr_field(an, Head(body)), Tail(body))

\* visit_item_fn
visit_item_fn(an, node) ==
    LET previous_item == an.current_item
        an1 == [an EXCEPT !.defined_functions = @ \cup {node.ident},
                          !.current_item = Some(node.ident)]
        an2 == analyze_signature(an1, node.sig)
        an3 == VisitBody(an2, node.body)
    IN [an3 EXCEPT !.current_item = previous_item]

\* visit_item_use of `use <path>;`
visit_item_use(an, node) ==
    IF node.path = <<"s", "e", "l", "f">> \/ StartsWith(node.path, PrefixSelf) THEN an
    ELSE add_dependency(
             [an EXCEPT !.imported_types =
                 [t \in DOMAIN @ \cup {LastSegment(node.path)} |->
                     IF t = LastSegment(node.path) THEN node.path ELSE @[t]]],
             node.path, "Import")

\* CouplingAnalyzer::new
NewAnalyzer(module_name) ==
    [current_module |-> module_name, dependencies |-> <<>>, defined_types |-> {},
     defined_functions |-> {}, imported_types |-> <<>>, seen_dependencies |-> {},
     current_item |-> None, item_dependencies |-> <<>>, visited |-> 0]

N_Cfg == <<"C", "f", "g">>
N_c == <<"c">>
N_inner_field == <<"i", "n", "n", "e", "r", "_", "f", "i", "e", "l", "d">>
N_i32 == <<"i", "3", "2">>
D_b_Cfg == <<"b", ":", ":", "C", "f", "g">>
D_self_Cfg == <<"s", "e", "l", "f", ":", ":", "C", "f", "g">>

MaxItems == 2
MaxFields == 1

VisitFields ==
    {[base |-> b, member |-> N_inner_field] :
        b \in {None, Some(N_c), Some(D_config), Some(N_Cfg)}}

VisitFns ==
    {[item |-> "fn", ident |-> N_f,
      sig |-> [inputs |-> <<[pat |-> x, ty |-> N_Cfg]>>, output |-> o],
      body |-> b] :
        x \in {N_c, D_config}, o \in {Some(N_i32)},
        b \in UNION {[1..n -> VisitFields] : n \in 0..MaxFields}}

VisitUses == {[item |-> "use", path |-> x] : x \in {D_b_Cfg, D_self_Cfg}}

InitVisit ==
    /\ pc = "visit"
    /\ syntax \in UNION {[1..n -> VisitUses \cup VisitFns] : n \in 0..MaxItems}
    /\ analyzer = Some(NewAnalyzer(<<"a">>))
    /\ lookups = <<>> /\ limit = 0 /\ hotspots = None /\ IdleLate
    /\ IdleReg /\ IdleExtractor /\ IdleParallel /\ IdleReport /\ IdleCli
    /\ IdleProject /\ IdleBalance /\ Idle /\ IdleCycle

\* visit_file reaches a use declaration
VisitItemUse ==
    /\ pc = "visit" /\ analyzer[1].visited < Len(syntax)
    /\ syntax[analyzer[1].visited + 1].item = "use"
    /\ analyzer' = Some([visit_item_use(analyzer[1], syntax[analyzer[1].visited + 1])
                            EXCEPT !.visited = @ + 1])
    /\ UNCHANGED <<pc, syntax, lookupVars, hotspotVars>>
    /\ UNCHANGED <<regVars, extractVars, parallelVars, reportVars, cliVars, lateVars>>
    /\ UNCHANGED <<projectVars, balanceVars, gradeVars, cycleVars>>

\* visit_file reaches a function
VisitItemFn ==
    /\ pc = "visit" /\ analyzer[1].visited < Len(syntax)
    /\ syntax[analyzer[1].visited + 1].item = "fn"
    /\ analyzer' = Some([visit_item_fn(analyzer[1], syntax[analyzer[1].visited + 1])
                            EXCEPT !.visited = @ + 1])
    /\ UNCHANGED <<pc, syntax, lookupVars, hotspotVars>>
    /\ UNCHANGED <<regVars, extractVars, parallelVars, reportVars, cliVars, lateVars>>
    /\ UNCHANGED <<projectVars, balanceVars, gradeVars, cycleVars>>

\* analyze_file returns Ok(())
VisitDone ==
    /\ pc = "visit" /\ analyzer[1].visited = Len(syntax)
    /\ pc' = "visited"
    /\ UNCHANGED <<visitVars, lookupVars, hotspotVars>>
    /\ UNCHANGED <<regVars, extractVars, parallelVars, reportVars, cliVars, lateVars>>
    /\ UNCHANGED <<projectVars, balanceVars, gradeVars, cycleVars>>

NextVisit ==
    \/ VisitItemUse
    \/ VisitItemFn
    \/ VisitDone

SpecVisit == InitVisit /\ [][NextVisit]_vars

\* the path a type name written in the file stands for: the import that
\* brought the name in, or the name itself
ResolvedType(ty) ==
    IF \E i \in 1..Len(syntax) :
          /\ syntax[i].item = "use" /\ LastSegment(syntax[i].path) = ty
          /\ ~StartsWith(syntax[i].path, PrefixSelf)
    THEN LET i == CHOOSE j \in 1..Len(syntax) :
                     /\ syntax[j].item = "use" /\ LastSegment(syntax[j].path) = ty
                     /\ ~StartsWith(syntax[j].path, PrefixSelf)
         IN syntax[i].path
    ELSE ty

\* C18: a field access x.f in a function body, x being a parameter of the
\* function, yields a FieldAccess dependency whose path is the resolved type
\* of x, and an item-level FieldAccess dependency whose expression is x.f
\* (for `use b::Cfg; fn f(c: Cfg) -> i32 { c.inner_field }`: a FieldAccess
\* dependency on b::Cfg and the expression c.inner_field).
C18_FieldAccessOnReceiverType ==
    pc = "visited" =>
        \A i \in 1..Len(syntax) :
            syntax[i].item = "fn" =>
                \A k \in 1..Len(syntax[i].body), a \in 1..Len(syntax[i].sig.inputs) :
                    LET node == syntax[i].body[k]
                        param == syntax[i].sig.inputs[a]
                    IN (node.base = Some(param.pat)) =>
                          /\ \E d \in 1..Len(analyzer[1].dependencies) :
                                /\ analyzer[1].dependencies[d].usage = "FieldAccess"
                                /\ analyzer[1].dependencies[d].path =
                                       ResolvedType(param.ty)
                          /\ \E d \in 1..Len(analyzer[1].item_dependencies) :
                                /\ analyzer[1].item_dependencies[d].dep_type = "FieldAccess"
                                /\ analyzer[1].item_dependencies[d].expression =
                                       Some(param.pat \o <<".">> \o node.member)

----------------------------------------------------------------------------
(* Specification SpecOverride: the run of src/main.rs followed by callers *)
(* of CompiledConfig::get_volatility on the same configuration            *)

\* CompiledConfig::get_volatility: the answer and the config with its cache
get_volatility(cfg, p, git_volatility) ==
    LET r == get_volatility_override(cfg, p)
    IN [result |-> IF r.result # None THEN r.result[1] ELSE git_volatility,
        config |-> r.config]

MaxLookups == 2

LookupPaths == {N_balance, D_core_utils_Thing, N_report}

OverrideConfigs ==
    RunConfigs \cup {RunConfig(<<G_any>>, <<G_core_utils_any>>, <<N_balance>>)}

InitOverride ==
    /\ pc = "run_analyze"
    /\ analyzed \in RunProjects
    /\ workspace \in RunWorkspaces
    /\ config \in OverrideConfigs
    /\ couplings = <<>> /\ origin = <<>> /\ file_changes = <<>>
    /\ type_registry = <<>>
    /\ IdleBalance /\ Idle /\ IdleCycle
    /\ IdleStage

\* a caller asks for the volatility of a path, handing in the git-derived value
GetVolatility ==
    /\ pc = "run_done" /\ Len(lookups) < MaxLookups
    /\ \E p \in LookupPaths, git_volatility \in {"Low", "High"} :
          LET r == get_volatility(config, p, git_volatility)
          IN /\ lookups' = Append(lookups, [path |-> p,
                                            git_volatility |-> git_volatility,
                                            result |-> r.result])
             /\ config' = r.config
    /\ UNCHANGED <<pc, couplings, origin, file_changes, analyzed, type_registry,
                   workspace>>
    /\ UNCHANGED <<balanceVars, gradeVars, cycleVars>>
    /\ UNCHANGED <<regVars, extractVars, parallelVars, reportVars, cliVars, lateVars,
                   visitVars, hotspotVars>>

NextOverride ==
    \/ AnalyzeProject
    \/ AnalyzeWithWorkspace
    \/ GitFold
    \/ GitSkip
    \/ ApplyOverrides
    \/ GetVolatility

SpecOverride == InitOverride /\ [][NextOverride]_vars

\* the override the patterns of the configuration give a path: high before
\* medium before low, None when no pattern matches
OverrideTable(p) ==
    IF \E i \in 1..Len(config.high_patterns) : GlobMatches(config.high_patterns[i], p)
    THEN Some("High")
    ELSE IF \E i \in 1..Len(config.medium_patterns) :
                GlobMatches(config.medium_patterns[i], p)
    THEN Some("Medium")
    ELSE IF \E i \in 1..Len(config.low_patterns) : GlobMatches(config.low_patterns[i], p)
    THEN Some("Low")
    ELSE None

\* C19: get_volatility answers High if a high pattern matches the path, else
\* Medium if a medium pattern matches, else Low if a low pattern matches,
\* else the git-derived value handed in; a repeated lookup of a path answers
\* as the first lookup did; and once the run has applied the overrides,
\* after the git fold, every coupling whose target matches an override
\* carries the override value.
C19_OverridePrecedence ==
    /\ \A i \in 1..Len(lookups) :
          lookups[i].result =
              (IF OverrideTable(lookups[i].path) # None
               THEN OverrideTable(lookups[i].path)[1]
               ELSE lookups[i].git_volatility)
    /\ \A i, j \in 1..Len(lookups) :
          (/\ i < j /\ lookups[i].path = lookups[j].path
           /\ lookups[i].git_volatility = lookups[j].git_volatility)
              => lookups[j].result = lookups[i].result
    /\ pc = "run_done" =>
          \A i \in 1..Len(couplings) :
              OverrideTable(couplings[i].target) # None
                  => couplings[i].volatility = OverrideTable(couplings[i].target)[1]

\* the run folded a git history in and then overrode a coupling whose
\* git-derived volatility was another one; afterwards a path that a medium
\* and a low pattern both match was looked up twice
C19_Witness ==
    /\ pc = "run_done" /\ file_changes # <<>>
    /\ \E i \in 1..Len(couplings) :
          /\ OverrideTable(couplings[i].target) # None
          /\ update_volatility_from_git(couplings, file_changes)[i].volatility
                 # couplings[i].volatility
    /\ Len(lookups) = 2
    /\ lookups[1].path = lookups[2].path
    /\ AnyMatches(config.medium_patterns, lookups[1].path)
    /\ AnyMatches(config.low_patterns, lookups[1].path)
    /\ lookups[1].git_volatility = "High"
    /\ lookups[2].result = "Medium"

----------------------------------------------------------------------------
(* Specification SpecHotspots: calculate_hotspots (src/cli_output.rs); its *)
(* call of detect_circular_dependencies is the depth-first search above    *)

\* the weight of one issue in the score
SeverityWeight(sev) ==
    CASE sev = "Critical" -> 50
      [] sev = "High" -> 30
      [] sev = "Medium" -> 15
      [] sev = "Low" -> 5

RECURSIVE WeightSum(_)
WeightSum(is) ==
    IF is = <<>> THEN 0 ELSE SeverityWeight(Head(is).severity) + WeightSum(Tail(is))

\* hotspots.sort_by(|a, b| b.score.cmp(&a.score)): stable, descending
RECURSIVE InsertHotspot(_, _)
InsertHotspot(sorted, x) ==
    IF sorted = <<>> THEN <<x>>
    ELSE IF Head(sorted).score < x.score THEN <<x>> \o sorted
    ELSE <<Head(sorted)>> \o InsertHotspot(Tail(sorted), x)

RECURSIVE SortHotspots(_, _)
SortHotspots(sorted, rest) ==
    IF rest = <<>> THEN sorted
    ELSE SortHotspots(InsertHotspot(sorted, Head(rest)), Tail(rest))

\* calculate_hotspots after its two calls: the vectors it may return, the
\* two HashMap / HashSet loops running in any order
calculate_hotspots(rep, circular_deps, cs, lim) ==
    LET cycle_modules == UNION {Range(c) : c \in Range(circular_deps)}
        sources == {rep.issues[i].source : i \in 1..Len(rep.issues)}
        module_issues == [m \in sources |->
                             SelectSeq(rep.issues, LAMBDA i : i.source = m)]
        WithIssues(m) ==
            [module |-> m,
             score |-> WeightSum(module_issues[m])
                       + (IF m \in cycle_modules THEN 40 ELSE 0)
                       + (InternalCount(cs, "source", m)
                          + InternalCount(cs, "target", m)) * 2,
             issues |-> [i \in 1..Len(module_issues[m]) |->
                            [severity |-> module_issues[m][i].severity,
                             issue_type |-> module_issues[m][i].issue_type]],
             in_cycle |-> m \in cycle_modules]
        CycleOnly(m) ==
            [module |-> m, score |-> 40,
             issues |-> <<[severity |-> "Critical",
                           issue_type |-> "CircularDependency"]>>,
             in_cycle |-> TRUE]
    IN {LET sorted == SortHotspots(<<>>, a \o b)
        IN SubSeq(sorted, 1, Min(lim, Len(sorted))) :
           a \in Orders({WithIssues(m) : m \in sources}),
           b \in Orders({CycleOnly(m) : m \in cycle_modules \ sources})}

MaxHotCouplings == 2
MaxLimit == 2

HotCouplings ==
    {c \in [source : CycleModules, target : CycleModules,
            strength : {"Model", "Intrusive"},
            distance : {"DifferentModule", "DifferentCrate"},
            volatility : {"Low"}] :
        /\ c.source # c.target
        /\ c.distance = "DifferentCrate" => c.strength = "Model"}

InitHotspots ==
    /\ pc = "cycle_start"
    /\ couplings \in UNION {[1..n -> HotCouplings] : n \in 0..MaxHotCouplings}
    /\ origin = <<>> /\ file_changes = <<>> /\ analyzed = <<>> /\ config = None
    /\ type_registry = <<>> /\ workspace = None
    /\ modules = <<>> /\ report = None
    /\ thresholds \in {Some(DefaultThresholds),
                       Some([DefaultThresholds EXCEPT !.max_dependencies = 1])}
    /\ limit \in {1, MaxLimit} /\ hotspots = None
    /\ IdleReg /\ IdleExtractor /\ IdleParallel /\ IdleCli
    /\ IdleVisit /\ IdleLookup /\ IdleLate
    /\ IdleBalance /\ Idle /\ IdleCycle

\* calculate_hotspots: the report, the grouping, the scores, the sort and
\* the truncation
CalculateHotspots ==
    /\ pc = "cycle_done" /\ thresholds # None /\ hotspots = None
    /\ \E rep \in analyze_project_balance_with_thresholds(couplings, modules,
                                                          thresholds[1]) :
          /\ report' = Some(rep)
          /\ \E hs \in calculate_hotspots(rep, unique_cycles[1], couplings, limit) :
                hotspots' = Some(hs)
    /\ pc' = "hotspots_done"
    /\ UNCHANGED <<modules, thresholds, limit>>
    /\ UNCHANGED <<regVars, extractVars, parallelVars, cliVars, lateVars, visitVars, lookupVars>>
    /\ UNCHANGED <<projectVars, balanceVars, gradeVars, cycleVars>>

NextHotspots ==
    \/ BuildGraph \/ OuterVisit \/ OuterSkip
    \/ DfsDescend \/ DfsBackEdge \/ DfsCrossEdge \/ DfsReturn
    \/ ReturnUnique \/ CalculateHotspots

SpecHotspots == InitHotspots /\ [][NextHotspots]_vars

\* the modules on the cycles detect_circular_dependencies returned
CycleModulesFound == UNION {Range(c) : c \in Range(unique_cycles[1])}

\* C20: every hotspot's score is the sum of the severity weights of its
\* issues (Critical 50, High 30, Medium 15, Low 5), plus 40 if its module is
\* in a cycle, plus twice the number of its outgoing and incoming internal
\* couplings; a module that no issue names but that is in a cycle carries
\* exactly one issue, a CircularDependency, and is scored by the same
\* formula; the hotspots are in non-increasing order of score and number at
\* most limit.
C20_HotspotScores ==
    pc = "hotspots_done" =>
        LET hs == hotspots[1]
        IN /\ \A i \in 1..Len(hs) :
                 hs[i].score =
                     WeightSum(hs[i].issues)
                     + (IF hs[i].module \in CycleModulesFound THEN 40 ELSE 0)
                     + 2 * (InternalCount(couplings, "source", hs[i].module)
                            + InternalCount(couplings, "target", hs[i].module))
           /\ \A i \in 1..Len(hs) :
                 (/\ hs[i].module \in CycleModulesFound
                  /\ \A k \in 1..Len(report[1].issues) :
                        report[1].issues[k].source # hs[i].module)
                    => /\ Len(hs[i].issues) = 1
                       /\ hs[i].issues[1].issue_type = "CircularDependency"
           /\ \A i \in 1..(Len(hs) - 1) : hs[i].score >= hs[i + 1].score
           /\ Len(hs) <= limit

----------------------------------------------------------------------------
(* Specification SpecCheck: the quality gate (src/cli_output.rs); its call *)
(* of detect_circular_dependencies is the depth-first search above        *)

\* CheckConfig::default
DefaultCheckConfig ==
    [min_grade |-> Some("C"), max_critical |-> Some(0), max_circular |-> Some(0),
     fail_on |-> None]

\* the closure grade_order of run_check
grade_order(g) ==
    CASE g = "A" -> 5 [] g = "B" -> 4 [] g = "C" -> 3 [] g = "D" -> 2 [] g = "F" -> 1

\* mutant: a grade equal to the minimum fails as well
run_check_grade_le(rep, circular_deps, cfg) ==
    LET critical_count == rep.issues_by_severity.critical
        high_count == rep.issues_by_severity.high
        medium_count == rep.issues_by_severity.medium
        circular_count == Len(circular_deps)
        f1 == cfg.min_grade # None
              /\ grade_order(rep.health_grade) <= grade_order(cfg.min_grade[1])
        f2 == cfg.max_critical # None /\ critical_count > cfg.max_critical[1]
        f3 == cfg.max_circular # None /\ circular_count > cfg.max_circular[1]
        count == IF cfg.fail_on = None THEN 0
                 ELSE CASE cfg.fail_on[1] = "Critical" -> critical_count
                        [] cfg.fail_on[1] = "High" -> critical_count + high_count
                        [] cfg.fail_on[1] = "Medium" ->
                               critical_count + high_count + medium_count
                        [] cfg.fail_on[1] = "Low" -> Len(rep.issues)
        f4 == cfg.fail_on # None /\ count > 0
    IN [passed |-> ~(f1 \/ f2 \/ f3 \/ f4),
        grade |-> rep.health_grade,
        critical_count |-> critical_count, high_count |-> high_count,
        medium_count |-> medium_count, circular_count |-> circular_count,
        failures |-> (IF f1 THEN <<<<"grade", rep.health_grade, cfg.min_grade[1]>>>>
                      ELSE <<>>)
                  \o (IF f2 THEN <<<<"critical", critical_count, cfg.max_critical[1]>>>>
                      ELSE <<>>)
                  \o (IF f3 THEN <<<<"circular", circular_count, cfg.max_circular[1]>>>>
                      ELSE <<>>)
                  \o (IF f4 THEN <<<<"severity", count, cfg.fail_on[1]>>>> ELSE <<>>)]

\* run_check, given the report and the cycles its two calls returned; fN is
\* the N-th `if` of the function, which clears passed and pushes a failure
run_check(rep, circular_deps, cfg) ==
    LET critical_count == rep.issues_by_severity.critical
        high_count == rep.issues_by_severity.high
        medium_count == rep.issues_by_severity.medium
        circular_count == Len(circular_deps)
        f1 == cfg.min_grade # None
              /\ grade_order(rep.health_grade) < grade_order(cfg.min_grade[1])
        f2 == cfg.max_critical # None /\ critical_count > cfg.max_critical[1]
        f3 == cfg.max_circular # None /\ circular_count > cfg.max_circular[1]
        count == IF cfg.fail_on = None THEN 0
                 ELSE CASE cfg.fail_on[1] = "Critical" -> critical_count
                        [] cfg.fail_on[1] = "High" -> critical_count + high_count
                        [] cfg.fail_on[1] = "Medium" ->
                               critical_count + high_count + medium_count
                        [] cfg.fail_on[1] = "Low" -> Len(rep.issues)
        f4 == cfg.fail_on # None /\ count > 0
    IN [passed |-> ~(f1 \/ f2 \/ f3 \/ f4),
        grade |-> rep.health_grade,
        critical_count |-> critical_count, high_count |-> high_count,
        medium_count |-> medium_count, circular_count |-> circular_count,
        failures |-> (IF f1 THEN <<<<"grade", rep.health_grade, cfg.min_grade[1]>>>>
                      ELSE <<>>)
                  \o (IF f2 THEN <<<<"critical", critical_count, cfg.max_critical[1]>>>>
                      ELSE <<>>)
                  \o (IF f3 THEN <<<<"circular", circular_count, cfg.max_circular[1]>>>>
                      ELSE <<>>)
                  \o (IF f4 THEN <<<<"severity", count, cfg.fail_on[1]>>>> ELSE <<>>)]

MaxCheckCouplings == 2

CheckCouplings ==
    {c \in [source : CycleModules, target : CycleModules,
            strength : {"Model", "Intrusive"},
            distance : {"DifferentModule"},
            volatility : {"Low", "High"}] :
        /\ c.source # c.target
        /\ c.volatility = "High" => c.strength = "Intrusive"}

CheckConfigs ==
    {[DefaultCheckConfig EXCEPT !.fail_on = f] :
        f \in {None, Some("Critical"), Some("High"), Some("Medium"), Some("Low")}}

InitCheck ==
    /\ pc = "cycle_start"
    /\ couplings \in UNION {[1..n -> CheckCouplings] : n \in 0..MaxCheckCouplings}
    /\ origin = <<>> /\ file_changes = <<>> /\ analyzed = <<>> /\ config = None
    /\ type_registry = <<>> /\ workspace = None
    /\ modules = <<>> /\ report = None /\ thresholds = Some(DefaultThresholds)
    /\ check_config \in {Some(c) : c \in CheckConfigs}
    /\ check_result = None /\ exit_code = None
    /\ IdleReg /\ IdleExtractor /\ IdleParallel /\ IdleCli
    /\ IdleVisit /\ IdleLookup /\ IdleHotspot /\ IdleGraph /\ IdlePool
    /\ IdleBalance /\ Idle /\ IdleCycle

\* generate_check_output: run_check, the printed summary, the exit code
GenerateCheckOutput ==
    /\ pc = "cycle_done" /\ check_config # None /\ check_result = None
    /\ \E rep \in analyze_project_balance_with_thresholds(couplings, modules,
                                                          thresholds[1]) :
          LET result == run_check(rep, unique_cycles[1], check_config[1])
          IN /\ report' = Some(rep)
             /\ check_result' = Some(result)
             /\ exit_code' = Some(IF result.passed THEN 0 ELSE 1)
    /\ pc' = "checked"
    /\ UNCHANGED <<modules, thresholds, check_config>>
    /\ UNCHANGED <<regVars, extractVars, parallelVars, cliVars, visitVars,
                   lookupVars, hotspotVars, graphVars, poolVars>>
    /\ UNCHANGED <<projectVars, balanceVars, gradeVars, cycleVars>>

NextCheck ==
    \/ BuildGraph \/ OuterVisit \/ OuterSkip
    \/ DfsDescend \/ DfsBackEdge \/ DfsCrossEdge \/ DfsReturn
    \/ ReturnUnique \/ GenerateCheckOutput

SpecCheck == InitCheck /\ [][NextCheck]_vars

\* what fails the default gate: a grade below C, a critical issue, a cycle
DefaultGateFails ==
    \/ report[1].health_grade \in {"D", "F"}
    \/ \E i \in 1..Len(report[1].issues) : report[1].issues[i].severity = "Critical"
    \/ HasCycle(InternalEdges)

\* C21: passed is true iff the failures list is empty; the exit code is 0 iff
\* passed and 1 otherwise; under the default CheckConfig the check fails
\* exactly when the grade is below C or there is a critical issue or a
\* circular dependency; with fail_on = S it fails exactly when, in addition,
\* some issue has severity S or higher; an empty project passes.
C21_QualityGate ==
    pc = "checked" =>
        LET r == check_result[1]
            cfg == check_config[1]
        IN /\ r.passed <=> (r.failures = <<>>)
           /\ exit_code = Some(IF r.passed THEN 0 ELSE 1)
           /\ cfg.fail_on = None => (~r.passed <=> DefaultGateFails)
           /\ cfg.fail_on # None =>
                 (~r.passed <=>
                     \/ DefaultGateFails
                     \/ \E i \in 1..Len(report[1].issues) :
                           SeverityRank(report[1].issues[i].severity)
                               >= SeverityRank(cfg.fail_on[1]))
           /\ couplings = <<>> => r.passed

\* a project of grade C without a cycle passes the default gate, and the same
\* project is failed by fail_on = Medium
C21_Witness ==
    /\ pc = "checked"
    /\ report[1].health_grade = "C" /\ ~HasCycle(InternalEdges)
    /\ check_config[1].fail_on = Some("Medium")
    /\ ~check_result[1].passed /\ exit_code = Some(1)
    /\ Len(check_result[1].failures) = 1

----------------------------------------------------------------------------
(* Specification SpecConfig: the run of src/main.rs on configuration files *)
(* that may fail to parse or hold a glob pattern that does not compile    *)

G_bad == <<"*", "*", "*">>

MaxPatterns == 2

ConfigPatternLists ==
    UNION {[1..n -> {G_app_any, G_bad}] : n \in 0..MaxPatterns}

ConfigFiles ==
    {None} \cup
    {ConfigFile(ok, md, None, h, <<>>, l) :
        ok \in BOOLEAN, md \in {None, Some(2)},
        h \in ConfigPatternLists, l \in ConfigPatternLists}

InitConfig ==
    /\ pc = "load_config"
    /\ args \in {Some(a) : a \in ModArgs}
    /\ config_file \in ConfigFiles
    /\ couplings = <<>>
    /\ origin = <<>> /\ file_changes = <<>> /\ analyzed = <<>> /\ config = None
    /\ type_registry = <<>> /\ workspace = None
    /\ IdleReport /\ IdleReg /\ IdleExtractor /\ IdleParallel /\ IdleTools
    /\ IdleBalance /\ Idle /\ IdleCycle

SpecConfig == InitConfig /\ [][NextModuleCoupling]_vars

\* C22: when the configuration file parses, a setting that is valid takes
\* effect whatever is wrong with the others: the [thresholds] keys the file
\* gives are the configuration's thresholds, and a volatility list all of
\* whose patterns compile is the configuration's pattern list, even next to
\* a list holding a pattern that does not compile.
C22_ConfigErrorIsLocal ==
    (pc # "load_config" /\ config_file # None /\ config_file[1].parses) =>
        LET file == config_file[1]
            Valid(l) == \A i \in 1..Len(l) : PatternNewOk(l[i])
        IN /\ file.max_dependencies # None =>
                 config.thresholds.max_dependencies = file.max_dependencies[1]
           /\ Valid(file.high) => config.high_patterns = file.high
           /\ Valid(file.low) => config.low_patterns = file.low

----------------------------------------------------------------------------
(* Specification SpecPool: the parallel file analysis of                *)
(* analyze_project_parallel, chunk by chunk, in any order of completion *)

\* the chunk size chosen from the file count and the number of threads
chunk_size(file_count, num_threads) ==
    IF file_count < num_threads * 2 THEN 1
    ELSE Max(file_count \div (num_threads * 4), 1)

\* slice::par_chunks(size) on the file indexes 1..n: the chunks in order
par_chunks(n, size) ==
    [c \in 1..((n + size - 1) \div size) |->
        [k \in 1..Min(size, n - (c - 1) * size) |-> (c - 1) * size + k]]

\* mutant: the chunk results are concatenated last chunk first
RECURSIVE CollectChunks_reversed(_)
CollectChunks_reversed(chunks) ==
    IF chunks = <<>> THEN <<>>
    ELSE CollectChunks_reversed(Tail(chunks)) \o Head(chunks).result[1]

\* flat_map(..).collect() of an indexed parallel iterator: the chunk results
\* concatenated in chunk order
RECURSIVE CollectChunks(_)
CollectChunks(chunks) ==
    IF chunks = <<>> THEN <<>>
    ELSE Head(chunks).result[1] \o CollectChunks(Tail(chunks))

MaxPoolFiles == 9
MaxThreads == 2

\* the module name of the k-th file: m followed by the k-th lowercase letter
PoolModuleName(k) == <<"m", Alphabet[Code("a") + k - 1]>>

\* what analyze_rust_file_full makes of the k-th file when the files of
\* failing do not parse
PoolResult(k, failing) ==
    [file |-> [module_name |-> PoolModuleName(k), crate_name |-> N_app,
               dependencies |->
                   <<RunDependency(IF k % 3 = 0 THEN D_crate_balance_Score
                                   ELSE D_serde_json_Value,
                                   IF k % 2 = 0 THEN "TraitBound" ELSE "FieldAccess")>>,
               type_visibility |->
                   (N_Score :> (IF k % 2 = 0 THEN "Public" ELSE "Private"))],
     error |-> IF k \in failing THEN Some("ParseError") ELSE None]

InitPool ==
    /\ pc = "pool_start"
    /\ path_exists = TRUE
    /\ \E n \in 0..MaxPoolFiles, failing \in {{}, {2}, {1, 8}} :
          file_results = [k \in 1..n |-> PoolResult(k, failing)]
    /\ par_result = None /\ pool = None
    /\ IdleCheck /\ IdleGraph
    /\ IdleReg /\ IdleExtractor /\ IdleReport /\ IdleCli
    /\ IdleVisit /\ IdleLookup /\ IdleHotspot
    /\ IdleProject /\ IdleBalance /\ Idle /\ IdleCycle

\* the chunk size is computed and the files are split into chunks
Partition ==
    /\ pc = "pool_start"
    /\ \E num_threads \in 1..MaxThreads :
          LET size == chunk_size(Len(file_results), num_threads)
              parts == par_chunks(Len(file_results), size)
          IN pool' = Some([num_threads |-> num_threads, chunk_size |-> size,
                           chunks |-> [c \in 1..Len(parts) |->
                                          [files |-> parts[c], result |-> None]],
                           analyzed_times |-> [k \in 1..Len(file_results) |-> 0],
                           out_of_order |-> FALSE])
    /\ pc' = "pool_run"
    /\ UNCHANGED <<parallelVars, checkVars, graphVars>>
    /\ UNCHANGED <<regVars, extractVars, reportVars, cliVars, visitVars,
                   lookupVars, hotspotVars>>
    /\ UNCHANGED <<projectVars, balanceVars, gradeVars, cycleVars>>

\* a worker runs the closure of flat_map on one chunk not yet taken
WorkerRunsChunk ==
    /\ pc = "pool_run"
    /\ \E c \in 1..Len(pool[1].chunks) :
          /\ pool[1].chunks[c].result = None
          /\ LET files == pool[1].chunks[c].files
                 results == [i \in 1..Len(files) |-> file_results[files[i]]]
             IN pool' = Some([pool[1] EXCEPT
                   !.chunks[c].result = Some(AnalyzedResults(results)),
                   !.analyzed_times = [k \in DOMAIN @ |->
                                          IF k \in Range(files) THEN @[k] + 1 ELSE @[k]],
                   !.out_of_order = @ \/ \E d \in 1..(c - 1) :
                                            pool[1].chunks[d].result = None])
    /\ UNCHANGED <<pc, parallelVars, checkVars, graphVars>>
    /\ UNCHANGED <<regVars, extractVars, reportVars, cliVars, visitVars,
                   lookupVars, hotspotVars>>
    /\ UNCHANGED <<projectVars, balanceVars, gradeVars, cycleVars>>

\* every chunk is done: collect(), then the sequential merge
CollectAndMerge ==
    /\ pc = "pool_run"
    /\ \A c \in 1..Len(pool[1].chunks) : pool[1].chunks[c].result # None
    /\ LET analyzed_results == CollectChunks(pool[1].chunks)
           merged == analyze_project_parallel(analyzed_results)
       IN par_result' = Some([ok |-> TRUE,
                              total_files |-> Len(analyzed_results),
                              modules |-> ModuleNamesOf(analyzed_results),
                              couplings |-> merged.couplings,
                              type_registry |-> merged.type_registry])
    /\ pc' = "pool_done"
    /\ UNCHANGED <<path_exists, file_results, pool, checkVars, graphVars>>
    /\ UNCHANGED <<regVars, extractVars, reportVars, cliVars, visitVars,
                   lookupVars, hotspotVars>>
    /\ UNCHANGED <<projectVars, balanceVars, gradeVars, cycleVars>>

NextPool ==
    \/ Partition
    \/ WorkerRunsChunk
    \/ CollectAndMerge

SpecPool == InitPool /\ [][NextPool]_vars

\* C23: whatever the number of threads, the chunk size and the order in
\* which the workers finish their chunks, the merged result is the one the
\* file list alone determines (modules, couplings in order, type registry,
\* total_files), and every file has been analyzed exactly once.
C23_SchedulingIndependent ==
    pc = "pool_done" =>
        /\ par_result = Some(analyze_project(TRUE, file_results))
        /\ \A k \in 1..Len(file_results) : pool[1].analyzed_times[k] = 1

\* chunks of two files finished out of order, one of them holding a file
\* that failed, and the merge has run
C23_Witness ==
    /\ pc = "pool_done"
    /\ pool[1].chunk_size = 2 /\ pool[1].out_of_order
    /\ \E k \in 1..Len(file_results) : file_results[k].error # None
    /\ Len(par_result[1].couplings) >= 2

----------------------------------------------------------------------------
(* Specification SpecCalls: sequences of add_dependency and             *)
(* add_item_dependency calls on one CouplingAnalyzer                    *)

MaxCalls == 4

\* the calls a visitor may make: the two recording methods, and the entry
\* into and exit from a function item, which set and reset current_item
AnalyzerCalls ==
    {[op |-> "add_dependency", path |-> p, usage |-> u] :
        p \in {D_b_Cfg, N_Cfg}, u \in {"Import", "FieldAccess"}}
    \cup {[op |-> "add_item_dependency", target |-> t, dep_type |-> d] :
        t \in {N_Cfg, N_c}, d \in {"TypeUsage", "FunctionCall"}}
    \cup {[op |-> "enter_item"], [op |-> "leave_item"]}

InitCalls ==
    /\ pc = "calls"
    /\ calls \in UNION {[1..n -> AnalyzerCalls] : n \in 0..MaxCalls}
    /\ analyzer = Some(NewAnalyzer(<<"a">>))
    /\ syntax = <<>> /\ IdleLookup /\ IdleHotspot /\ IdleLate
    /\ IdleExtractor /\ IdleParallel /\ IdleReport /\ IdleCli
    /\ IdleProject /\ IdleBalance /\ Idle /\ IdleCycle

\* the next call is add_dependency
AddDependencyCall ==
    /\ pc = "calls" /\ analyzer[1].visited < Len(calls)
    /\ LET call == calls[analyzer[1].visited + 1]
       IN /\ call.op = "add_dependency"
          /\ analyzer' = Some([add_dependency(analyzer[1], call.path, call.usage)
                                  EXCEPT !.visited = @ + 1])
    /\ UNCHANGED <<pc, syntax, lookupVars, hotspotVars>>
    /\ UNCHANGED <<regVars, extractVars, parallelVars, reportVars, cliVars, lateVars>>
    /\ UNCHANGED <<projectVars, balanceVars, gradeVars, cycleVars>>

\* the next call is add_item_dependency
AddItemDependencyCall ==
    /\ pc = "calls" /\ analyzer[1].visited < Len(calls)
    /\ LET call == calls[analyzer[1].visited + 1]
       IN /\ call.op = "add_item_dependency"
          /\ analyzer' = Some([add_item_dependency(analyzer[1], call.target,
                                                   call.dep_type, None)
                                  EXCEPT !.visited = @ + 1])
    /\ UNCHANGED <<pc, syntax, lookupVars, hotspotVars>>
    /\ UNCHANGED <<regVars, extractVars, parallelVars, reportVars, cliVars, lateVars>>
    /\ UNCHANGED <<projectVars, balanceVars, gradeVars, cycleVars>>

\* visit_item_fn sets current_item on entry
EnterItem ==
    /\ pc = "calls" /\ analyzer[1].visited < Len(calls)
    /\ calls[analyzer[1].visited + 1].op = "enter_item"
    /\ analyzer' = Some([analyzer[1] EXCEPT !.current_item = Some(N_f),
                                            !.visited = @ + 1])
    /\ UNCHANGED <<pc, syntax, lookupVars, hotspotVars>>
    /\ UNCHANGED <<regVars, extractVars, parallelVars, reportVars, cliVars, lateVars>>
    /\ UNCHANGED <<projectVars, balanceVars, gradeVars, cycleVars>>

\* visit_item_fn restores current_item on exit (top-level items: to None)
LeaveItem ==
    /\ pc = "calls" /\ analyzer[1].visited < Len(calls)
    /\ calls[analyzer[1].visited + 1].op = "leave_item"
    /\ analyzer' = Some([analyzer[1] EXCEPT !.current_item = None,
                                            !.visited = @ + 1])
    /\ UNCHANGED <<pc, syntax, lookupVars, hotspotVars>>
    /\ UNCHANGED <<regVars, extractVars, parallelVars, reportVars, cliVars, lateVars>>
    /\ UNCHANGED <<projectVars, balanceVars, gradeVars, cycleVars>>

NextCalls ==
    \/ AddDependencyCall
    \/ AddItemDependencyCall
    \/ EnterItem
    \/ LeaveItem

SpecCalls == InitCalls /\ [][NextCalls]_vars

\* the calls made so far
CallsMade == SubSeq(calls, 1, analyzer[1].visited)

\* the (path, usage) pairs of the add_dependency calls made, each at its
\* first occurrence only
FirstPairs ==
    LET made == CallsMade
        first == {i \in 1..Len(made) :
                     /\ made[i].op = "add_dependency"
                     /\ \A j \in 1..(i - 1) :
                           ~(/\ made[j].op = "add_dependency"
                             /\ made[j].path = made[i].path
                             /\ made[j].usage = made[i].usage)}
    IN [i \in 1..Cardinality(first) |->
           LET k == CHOOSE k \in first : Cardinality({j \in first : j < k}) = i - 1
           IN <<made[k].path, made[k].usage>>]

\* whether an item is current just before the i-th call
ItemSetBefore(i) ==
    \E j \in 1..(i - 1) :
        /\ calls[j].op = "enter_item"
        /\ \A k \in (j + 1)..(i - 1) : calls[k].op # "leave_item"

\* the add_item_dependency calls made while an item was current
ItemCallsRecorded ==
    LET at == {i \in 1..analyzer[1].visited :
                  calls[i].op = "add_item_dependency" /\ ItemSetBefore(i)}
    IN [i \in 1..Cardinality(at) |->
           LET k == CHOOSE k \in at : Cardinality({j \in at : j < k}) = i - 1
           IN <<calls[k].target, calls[k].dep_type>>]

\* C24: dependencies holds one entry per distinct (path, usage context)
\* pair added, in order of first occurrence; item dependencies are not
\* deduplicated: one record per add_item_dependency made while an item is
\* current, none otherwise.
C24_DependencyDedup ==
    pc = "calls" =>
        /\ [i \in 1..Len(analyzer[1].dependencies) |->
               <<analyzer[1].dependencies[i].path,
                 analyzer[1].dependencies[i].usage>>] = FirstPairs
        /\ [i \in 1..Len(analyzer[1].item_dependencies) |->
               <<analyzer[1].item_dependencies[i].target,
                 analyzer[1].item_dependencies[i].dep_type>>] = ItemCallsRecorded

\* a pair was added twice and its path once more with another usage context,
\* then an item dependency was added while no item was current
C24_Witness ==
    /\ pc = "calls" /\ analyzer[1].visited = Len(calls) /\ Len(calls) = 4
    /\ calls[1] = calls[3] /\ calls[1].op = "add_dependency"
    /\ calls[2].op = "add_dependency" /\ calls[2].path = calls[1].path
    /\ calls[2].usage # calls[1].usage
    /\ Len(analyzer[1].dependencies) = 2
    /\ calls[4].op = "add_item_dependency"
    /\ analyzer[1].item_dependencies = <<>>

----------------------------------------------------------------------------
(* Cycle canonicalization and the list detect_circular_dependencies returns *)

\* the rotations of a cycle
Rotations(cycle) ==
    {SubSeq(cycle, k, Len(cycle)) \o SubSeq(cycle, 1, k - 1) : k \in 1..Len(cycle)}

\* C25: normalize_cycle is idempotent and sends every rotation of a cycle
\* to the same list; the returned list holds no two cycles with the same
\* canonical form, and each returned cycle is one the search found, in the
\* rotation in which it was found first.
C25_CanonicalCycles ==
    pc = "cycle_done" =>
        /\ \A i \in 1..Len(cycles) : \A r \in Rotations(cycles[i]) :
              /\ normalize_cycle(r) = normalize_cycle(cycles[i])
              /\ normalize_cycle(normalize_cycle(r)) = normalize_cycle(r)
        /\ \A i, j \in 1..Len(unique_cycles[1]) :
              i # j => normalize_cycle(unique_cycles[1][i])
                           # normalize_cycle(unique_cycles[1][j])
        /\ \A i \in 1..Len(unique_cycles[1]) :
              \E k \in 1..Len(cycles) :
                 /\ unique_cycles[1][i] = cycles[k]
                 /\ \A m \in 1..(k - 1) :
                       normalize_cycle(cycles[m]) # normalize_cycle(cycles[k])
        /\ \A k \in 1..Len(cycles) : \E i \in 1..Len(unique_cycles[1]) :
              normalize_cycle(unique_cycles[1][i]) = normalize_cycle(cycles[k])

\* a cycle of three modules is returned in a rotation that is not canonical
C25_Witness ==
    /\ pc = "cycle_done"
    /\ \E i \in 1..Len(unique_cycles[1]) :
          /\ Len(unique_cycles[1][i]) = 3
          /\ unique_cycles[1][i] # normalize_cycle(unique_cycles[1][i])

----------------------------------------------------------------------------
(* Volatility when the git history gives nothing *)

AllLow == \A i \in 1..Len(couplings) : couplings[i].volatility = "Low"

\* C26: the couplings leave the aggregator with volatility Low; when the git
\* analysis is skipped or fails, or the file-change map is empty, the
\* couplings stay as the aggregator built them, and without configured
\* overrides the finished run has only Low.
C26_VolatilityDefaultsLow ==
    /\ pc = "run_git" => AllLow
    /\ (pc = "run_override" /\ file_changes = <<>>) =>
          AllLow /\ Len(couplings) = Len(origin)
    /\ (pc = "run_done" /\ file_changes = <<>>
           /\ ~has_volatility_overrides(config)) => AllLow

\* a run with couplings finished without git data and without overrides
C26_Witness ==
    /\ pc = "run_done" /\ file_changes = <<>>
    /\ ~has_volatility_overrides(config)
    /\ Len(couplings) >= 2 /\ AllLow

----------------------------------------------------------------------------
(* Specification SpecGraph: project_to_graph (src/web/graph.rs) on the  *)
(* couplings the analysis builds for a small project                    *)

\* analyze_project_balance: the report under the default thresholds
analyze_project_balance(cs, ms) ==
    analyze_project_balance_with_thresholds(cs, ms, DefaultThresholds)

\* find_issue_for_coupling (its thresholds argument is unused); score.score
\* is in 64ths
find_issue_for_coupling(c, score, th) ==
    IF c.strength = "Intrusive" /\ c.distance = "DifferentCrate"
    THEN Some([issue_type |-> "GlobalComplexity", severity |-> "High"])
    ELSE IF c.strength \in {"Intrusive", "Functional"} /\ c.volatility = "High"
    THEN Some([issue_type |-> "CascadingChangeRisk", severity |-> "Medium"])
    ELSE IF score.score * 5 < 128
    THEN Some([issue_type |-> "LowBalance",
               severity |-> IF score.score * 5 < 64 THEN "High" ELSE "Medium"])
    ELSE None

\* the names of the second node loop: sources and targets of the couplings
\* in order, each at its first occurrence, the names in seen left out
RECURSIVE EndpointNodes(_, _)
EndpointNodes(names, seen) ==
    IF names = <<>> THEN <<>>
    ELSE IF Head(names) \in seen THEN EndpointNodes(Tail(names), seen)
    ELSE <<Head(names)>> \o EndpointNodes(Tail(names), seen \cup {Head(names)})

\* the two node loops of project_to_graph: the modules in one of the orders
\* of the module map, then the endpoints not yet seen
graph_nodes(cs, ms, circular_deps) ==
    LET cycle_nodes == UNION {Range(c) : c \in Range(circular_deps)}
        Node(name, is_module) ==
            [id |-> name,
             couplings_out |-> Cardinality({i \in 1..Len(cs) : cs[i].source = name}),
             couplings_in |-> Cardinality({i \in 1..Len(cs) : cs[i].target = name}),
             in_cycle |-> name \in cycle_nodes,
             has_file_path |-> is_module]
        ends == EndpointNodes(FlattenSeq([i \in 1..Len(cs) |->
                                             <<cs[i].source, cs[i].target>>]),
                              DOMAIN ms)
    IN {[i \in 1..Len(order) |-> Node(order[i], TRUE)]
            \o [i \in 1..Len(ends) |-> Node(ends[i], FALSE)] :
          order \in Orders(DOMAIN ms)}

\* the internal_couplings filter of the summary
graph_internal_couplings(cs) ==
    Cardinality({i \in 1..Len(cs) :
                    \/ ~Contains(cs[i].target, SepColons)
                    \/ StartsWith(cs[i].target, <<"c", "r", "a", "t", "e", ":", ":">>)})

\* project_to_graph: the GraphData it may return, circular_deps being what
\* its call of detect_circular_dependencies returned
project_to_graph(cs, ms, th, circular_deps) ==
    {[nodes |-> ns,
      edges |-> [i \in 1..Len(cs) |->
                    graph_edges(cs, circular_deps)[i]
                        @@ [issue |-> find_issue_for_coupling(cs[i], calculate(cs[i]), th)]],
      summary |-> [health_grade |-> balance_report.health_grade,
                   health_score |-> balance_report.average_score,
                   total_modules |-> Cardinality(DOMAIN ms),
                   total_couplings |-> Len(cs),
                   internal_couplings |-> graph_internal_couplings(cs),
                   external_couplings |-> Len(cs) - graph_internal_couplings(cs),
                   issues_by_severity |->
                       [critical |-> CountWhere(balance_report.issues,
                                                LAMBDA i : i.severity = "Critical"),
                        high |-> CountWhere(balance_report.issues,
                                            LAMBDA i : i.severity = "High"),
                        medium |-> CountWhere(balance_report.issues,
                                              LAMBDA i : i.severity = "Medium"),
                        low |-> CountWhere(balance_report.issues,
                                           LAMBDA i : i.severity = "Low")]],
      circular_dependencies |-> circular_deps] :
        balance_report \in analyze_project_balance(cs, ms),
        ns \in graph_nodes(cs, ms, circular_deps)}

MaxGraphFiles == 3

\* the dependency lists of the first file
GraphDependencyLists ==
    {<<>>,
     <<RunDependency(D_crate_balance_Score, "FieldAccess")>>,
     <<RunDependency(D_serde_json_Value, "TraitBound")>>,
     <<RunDependency(D_crate_balance_Score, "FieldAccess"),
       RunDependency(D_serde_json_Value, "TraitBound")>>,
     <<RunDependency(D_crate_balance_Score, "FieldAccess"),
       RunDependency(D_crate_balance_Score, "Import")>>}

GraphProjects ==
    UNION {{[k \in 1..n |-> RunFile(k, ds[k])] :
                ds \in {f \in [1..n -> GraphDependencyLists \cup RunOtherLists] :
                           /\ f[1] \in GraphDependencyLists
                           /\ \A k \in 2..n : f[k] \in RunOtherLists}} :
           n \in 1..MaxGraphFiles}

GraphModule ==
    [function_definitions |-> <<>>, type_definitions |-> <<>>,
     trait_impl_count |-> 0, inherent_impl_count |-> 0]

\* the web server has the metrics of the analysis and the thresholds of the
\* command line
InitGraph ==
    /\ pc = "cycle_start"
    /\ analyzed \in GraphProjects
    /\ couplings = analyze_project_parallel(analyzed).couplings
    /\ type_registry = analyze_project_parallel(analyzed).type_registry
    /\ origin = <<>> /\ file_changes = <<>> /\ config = None /\ workspace = None
    /\ modules = [name \in ModuleNamesOf(analyzed) |-> GraphModule]
    /\ report = None
    /\ thresholds \in {Some(DefaultThresholds),
                       Some([DefaultThresholds EXCEPT !.max_dependencies = 1])}
    /\ graph_data = None
    /\ IdleReg /\ IdleExtractor /\ IdleParallel /\ IdleCli
    /\ IdleVisit /\ IdleLookup /\ IdleHotspot /\ IdleCheck /\ IdlePool
    /\ IdleBalance /\ Idle /\ IdleCycle

\* project_to_graph after its call of detect_circular_dependencies
ProjectToGraph ==
    /\ pc = "cycle_done" /\ thresholds # None /\ graph_data = None
    /\ \E g \in project_to_graph(couplings, modules, thresholds[1], unique_cycles[1]) :
          graph_data' = Some(g)
    /\ pc' = "graph_built"
    /\ UNCHANGED <<checkVars, poolVars>>
    /\ UNCHANGED <<regVars, extractVars, parallelVars, reportVars, cliVars,
                   visitVars, lookupVars, hotspotVars>>
    /\ UNCHANGED <<projectVars, balanceVars, gradeVars, cycleVars>>

NextGraph ==
    \/ BuildGraph \/ OuterVisit \/ OuterSkip
    \/ DfsDescend \/ DfsBackEdge \/ DfsCrossEdge \/ DfsReturn
    \/ ReturnUnique
    \/ ProjectToGraph

SpecGraph == InitGraph /\ [][NextGraph]_vars

GraphNodeIds == {graph_data[1].nodes[i].id : i \in 1..Len(graph_data[1].nodes)}

\* the nodes, the edges and the sum of the summary
GraphShape ==
    LET g == graph_data[1]
    IN /\ GraphNodeIds = DOMAIN modules
                            \cup {couplings[i].source : i \in 1..Len(couplings)}
                            \cup {couplings[i].target : i \in 1..Len(couplings)}
       /\ \A i, j \in 1..Len(g.nodes) : i # j => g.nodes[i].id # g.nodes[j].id
       /\ Len(g.edges) = Len(couplings)
       /\ \A i \in 1..Len(g.edges) :
             /\ g.edges[i].source = couplings[i].source
             /\ g.edges[i].target = couplings[i].target
             /\ g.edges[i].source \in GraphNodeIds
             /\ g.edges[i].target \in GraphNodeIds
       /\ g.summary.internal_couplings + g.summary.external_couplings
              = g.summary.total_couplings

\* C27: one node per module and per coupling endpoint with distinct ids, one
\* edge per coupling between nodes of the graph, internal + external = total
\* in the summary, and internal_couplings is the number of couplings whose
\* distance is not DifferentCrate.
C27_GraphSummary ==
    pc = "graph_built" =>
        /\ GraphShape
        /\ graph_data[1].summary.internal_couplings
              = Cardinality({i \in 1..Len(couplings) :
                                couplings[i].distance # "DifferentCrate"})

\* the part of C27 that the code satisfies
C27_GraphShapeOnly == pc = "graph_built" => GraphShape

\* C28: the summary of the graph and the report computed with the same
\* thresholds agree on the health grade and on the four issue counts.
C28_GraphAgreesWithReport ==
    pc = "graph_built" =>
        \A rep \in analyze_project_balance_with_thresholds(couplings, modules,
                                                           thresholds[1]) :
            /\ graph_data[1].summary.health_grade = rep.health_grade
            /\ graph_data[1].summary.issues_by_severity = rep.issues_by_severity

\* the agreement holds when the thresholds are the default ones
C28_AgreesUnderDefaults ==
    (pc = "graph_built" /\ thresholds[1] = DefaultThresholds) =>
        \A rep \in analyze_project_balance(couplings, modules) :
            /\ graph_data[1].summary.health_grade = rep.health_grade
            /\ graph_data[1].summary.issues_by_severity = rep.issues_by_severity

----------------------------------------------------------------------------
(* Specification SpecReport: the report of a project with internal and  *)
(* external couplings, hub modules and a declaration issue              *)

MaxReportCouplings == 3

ReportCouplings ==
    [source : {<<"a">>}, target : {<<"b">>},
     strength : {"Intrusive", "Model"},
     distance : {"SameModule", "DifferentModule", "DifferentCrate"},
     volatility : {"Low", "High"}]

InitReport ==
    /\ pc = "report"
    /\ couplings \in UNION {[1..n -> ReportCouplings] : n \in 0..MaxReportCouplings}
    /\ origin = <<>> /\ file_changes = <<>> /\ analyzed = <<>> /\ config = None
    /\ type_registry = <<>> /\ workspace = None
    /\ modules \in {<<>>,
                    (N_main :> [function_definitions |-> <<>>,
                                type_definitions |->
                                    (N_Score :> [name |-> N_Score,
                                                 visibility |-> "Public",
                                                 is_trait |-> FALSE,
                                                 public_field_count |-> 2]),
                                trait_impl_count |-> 0, inherent_impl_count |-> 0])}
    /\ thresholds \in {Some(DefaultThresholds),
                       Some([DefaultThresholds EXCEPT !.max_dependencies = 1,
                                                      !.max_dependents = 1])}
    /\ report = None
    /\ IdleReg /\ IdleExtractor /\ IdleParallel /\ IdleCli /\ IdleTools
    /\ IdleBalance /\ Idle /\ IdleCycle

NextReport == AnalyzeProjectBalance

SpecReport == InitReport /\ [][NextReport]_vars

RECURSIVE SumValues(_)
SumValues(f) ==
    IF DOMAIN f = {} THEN 0
    ELSE LET k == CHOOSE x \in DOMAIN f : TRUE
         IN f[k] + SumValues([x \in DOMAIN f \ {k} |-> f[x]])

ReportInternal ==
    Cardinality({i \in 1..Len(couplings) : couplings[i].distance # "DifferentCrate"})

\* C29: in every report the three balance counts add up to the number of
\* couplings that are not DifferentCrate (at most total_couplings), the
\* counts by severity and the counts by type each add up to the number of
\* issues, the issues are in non-increasing severity, top_priorities is the
\* first min(5, issues.len()) issues, and average_score is 1.0 when there
\* is no internal coupling.
C29_ReportConsistent ==
    pc = "reported" =>
        LET rep == report[1]
        IN /\ rep.balanced_count + rep.needs_review + rep.needs_refactoring
                  = ReportInternal
           /\ ReportInternal <= rep.total_couplings
           /\ rep.issues_by_severity.critical + rep.issues_by_severity.high
                  + rep.issues_by_severity.medium + rep.issues_by_severity.low
                  = Len(rep.issues)
           /\ SumValues(rep.issues_by_type) = Len(rep.issues)
           /\ \A i, j \in 1..Len(rep.issues) :
                 i < j => SeverityRank(rep.issues[i].severity)
                              >= SeverityRank(rep.issues[j].severity)
           /\ rep.top_priorities = SubSeq(rep.issues, 1, Min(5, Len(rep.issues)))
           /\ ReportInternal = 0 => rep.average_score = Frac(1, 1)

\* a report with more than five issues of three severities, for a project
\* with internal and external couplings, some of them not balanced
C29_Witness ==
    /\ pc = "reported"
    /\ Len(report[1].issues) > 5
    /\ ReportInternal >= 2 /\ ReportInternal < Len(couplings)
    /\ report[1].issues_by_severity.high >= 1
    /\ report[1].issues_by_severity.medium >= 1
    /\ report[1].issues_by_severity.low >= 1
    /\ report[1].needs_review + report[1].needs_refactoring >= 1

----------------------------------------------------------------------------
(* The health grade as the issue counts grow *)

\* the grade when one more issue of severity sev is counted
GradeWithOneMore(sev) ==
    calculate_health_grade([counts EXCEPT ![sev] = @ + 1], counts.internal)

\* C30: for a fixed number of internal couplings, one more critical, high
\* or medium issue never gives a better grade in the order A > B > C > D > F,
\* and grade A is given only for at least ten internal couplings without
\* critical and high issues.
C30_GradeMonotone ==
    grade # None =>
        /\ \A sev \in {"critical", "high", "medium"} :
              grade_order(GradeWithOneMore(sev)) <= grade_order(grade[1])
        /\ grade[1] = "A" =>
              /\ counts.internal >= 10
              /\ counts.critical = 0 /\ counts.high = 0

\* grade A was given, and one more medium issue takes it away
C30_Witness ==
    /\ grade = Some("A") /\ counts.medium = 1
    /\ GradeWithOneMore("medium") # "A"

====
